---- MODULE Spec2Model ----
(***************************************************************************)
(* GEDCOM decoder, tokenizer and encoder of iand/gedcom as a state         *)
(* machine.  A Go string is the sequence of its characters (one-character  *)
(* TLA+ strings); a pointer is the index of the object in the heap, 0 is   *)
(* nil; an embedded struct is a nested record.                             *)
(***************************************************************************)
EXTENDS Integers, Sequences, FiniteSets, TLC

VARIABLES
  phase,    \* position of the program: which call is running
  vocab,    \* the tag vocabulary the input file is written in
  lines,    \* the lines the tokenizer has yielded so far
  d,        \* the Decoder: parsers, refs, the record objects and the Gedcom g
  ret,      \* what Decode returned: [g, err] once it has returned
  enc,      \* the Encoder: the bytes written to w, and err
  scn,      \* the Scanner of the second Decode, which reads those bytes
  d2,       \* the Decoder of the second Decode
  lines2,   \* the lines the Scanner has yielded to it
  ret2      \* what the second Decode returned

vars == <<phase, vocab, lines, d, ret, enc, scn, d2, lines2, ret2>>

\* ------------------------------------------------------------------ bounds
MaxLines == 5
MaxLevel == 3
MaxText == 2
MaxScanLines == 3
MaxName == 7
\* The longest value textOneLine writes on one line
WrapLen == 246

\* ------------------------------------------------------------------ strings
\* The tag literals of the switch statements, as character sequences.
T ==
  [
    ABBR |-> <<"A","B","B","R">>, ADDR |-> <<"A","D","D","R">>, ADOP |-> <<"A","D","O","P">>,
    ADR1 |-> <<"A","D","R","1">>, ADR2 |-> <<"A","D","R","2">>, ADR3 |-> <<"A","D","R","3">>,
    AFN |-> <<"A","F","N">>, AGNC |-> <<"A","G","N","C">>, ALIA |-> <<"A","L","I","A">>,
    ANUL |-> <<"A","N","U","L">>, ASSO |-> <<"A","S","S","O">>, AUTH |-> <<"A","U","T","H">>,
    BAPM |-> <<"B","A","P","M">>, BARM |-> <<"B","A","R","M">>, BASM |-> <<"B","A","S","M">>,
    BIRT |-> <<"B","I","R","T">>, BLES |-> <<"B","L","E","S">>, BURI |-> <<"B","U","R","I">>,
    CALN |-> <<"C","A","L","N">>, CAST |-> <<"C","A","S","T">>, CAUS |-> <<"C","A","U","S">>,
    CENS |-> <<"C","E","N","S">>, CHAN |-> <<"C","H","A","N">>, CHAR |-> <<"C","H","A","R">>,
    CHIL |-> <<"C","H","I","L">>, CHR |-> <<"C","H","R">>, CHRA |-> <<"C","H","R","A">>,
    CITY |-> <<"C","I","T","Y">>, CONC |-> <<"C","O","N","C">>, CONF |-> <<"C","O","N","F">>,
    CONT |-> <<"C","O","N","T">>, COPR |-> <<"C","O","P","R">>, CORP |-> <<"C","O","R","P">>,
    CREM |-> <<"C","R","E","M">>, CTRY |-> <<"C","T","R","Y">>, DATA |-> <<"D","A","T","A">>,
    DATE |-> <<"D","A","T","E">>, DEAT |-> <<"D","E","A","T">>, DEST |-> <<"D","E","S","T">>,
    DIV |-> <<"D","I","V">>, DIVF |-> <<"D","I","V","F">>, DSCR |-> <<"D","S","C","R">>,
    EDUC |-> <<"E","D","U","C">>, EMAIL |-> <<"E","M","A","I","L">>,
    EMIG |-> <<"E","M","I","G">>, ENGA |-> <<"E","N","G","A">>, EVEN |-> <<"E","V","E","N">>,
    FACT |-> <<"F","A","C","T">>, FAM |-> <<"F","A","M">>, FAMC |-> <<"F","A","M","C">>,
    FAMS |-> <<"F","A","M","S">>, FAX |-> <<"F","A","X">>, FCOM |-> <<"F","C","O","M">>,
    FILE |-> <<"F","I","L","E">>, FONE |-> <<"F","O","N","E">>, FORM |-> <<"F","O","R","M">>,
    GEDC |-> <<"G","E","D","C">>, GIVN |-> <<"G","I","V","N">>, GRAD |-> <<"G","R","A","D">>,
    HEAD |-> <<"H","E","A","D">>, HUSB |-> <<"H","U","S","B">>, IDNO |-> <<"I","D","N","O">>,
    IMMI |-> <<"I","M","M","I">>, INDI |-> <<"I","N","D","I">>, LANG |-> <<"L","A","N","G">>,
    LATI |-> <<"L","A","T","I">>, LONG |-> <<"L","O","N","G">>, MAP |-> <<"M","A","P">>,
    MARB |-> <<"M","A","R","B">>, MARC |-> <<"M","A","R","C">>, MARL |-> <<"M","A","R","L">>,
    MARR |-> <<"M","A","R","R">>, MARS |-> <<"M","A","R","S">>, MEDI |-> <<"M","E","D","I">>,
    NAME |-> <<"N","A","M","E">>, NATI |-> <<"N","A","T","I">>, NATU |-> <<"N","A","T","U">>,
    NCHI |-> <<"N","C","H","I">>, NICK |-> <<"N","I","C","K">>, NMR |-> <<"N","M","R">>,
    NOTE |-> <<"N","O","T","E">>, NPFX |-> <<"N","P","F","X">>, NSFX |-> <<"N","S","F","X">>,
    OBJE |-> <<"O","B","J","E">>, OCCU |-> <<"O","C","C","U">>, ORDN |-> <<"O","R","D","N">>,
    PAGE |-> <<"P","A","G","E">>, PEDI |-> <<"P","E","D","I">>, PHON |-> <<"P","H","O","N">>,
    PLAC |-> <<"P","L","A","C">>, POST |-> <<"P","O","S","T">>, PROB |-> <<"P","R","O","B">>,
    PROP |-> <<"P","R","O","P">>, PUBL |-> <<"P","U","B","L">>, QUAY |-> <<"Q","U","A","Y">>,
    REFN |-> <<"R","E","F","N">>, RELA |-> <<"R","E","L","A">>, RELI |-> <<"R","E","L","I">>,
    REPO |-> <<"R","E","P","O">>, RESI |-> <<"R","E","S","I">>, RESN |-> <<"R","E","S","N">>,
    RETI |-> <<"R","E","T","I">>, RFN |-> <<"R","F","N">>, RIN |-> <<"R","I","N">>,
    ROMN |-> <<"R","O","M","N">>, SEX |-> <<"S","E","X">>, SOUR |-> <<"S","O","U","R">>,
    SPFX |-> <<"S","P","F","X">>, SSN |-> <<"S","S","N">>, STAE |-> <<"S","T","A","E">>,
    SUBM |-> <<"S","U","B","M">>, SUBN |-> <<"S","U","B","N">>, SURN |-> <<"S","U","R","N">>,
    TEXT |-> <<"T","E","X","T">>, TIME |-> <<"T","I","M","E">>, TITL |-> <<"T","I","T","L">>,
    TYPE |-> <<"T","Y","P","E">>, URL |-> <<"U","R","L">>, VERS |-> <<"V","E","R","S">>,
    WIFE |-> <<"W","I","F","E">>, WILL |-> <<"W","I","L","L">>, WWW |-> <<"W","W","W">>,
    TRLR |-> <<"T","R","L","R">>, _U |-> <<"_","U">>, _V |-> <<"_","V">>
  ]

\* strings.Trim(value, "@"): all leading and trailing '@' removed
\* stripXref when the value is returned as it is
stripXrefKept(value) ==
  value
stripXref(value) ==
  LET kept == {i \in DOMAIN value : value[i] # "@"} IN
  IF kept = {} THEN <<>>
  ELSE SubSeq(value, CHOOSE i \in kept : \A j \in kept : i <= j,
              CHOOSE i \in kept : \A j \in kept : i >= j)

\* ------------------------------------------------------------------ record types
\* The zero value of every struct type.  "" is <<>>, a nil pointer is 0, an
\* empty slice is <<>>.
NewAddressRecord ==
  [Address |-> <<>>, Phone |-> <<>>, Email |-> <<>>, Fax |-> <<>>, WWW |-> <<>>]
NewChangeRecord ==
  [Date |-> <<>>, Time |-> <<>>, Note |-> <<>>]
NewPlaceRecord ==
  [Name |-> <<>>, Phonetic |-> <<>>, Romanized |-> <<>>, Latitude |-> <<>>,
   Longitude |-> <<>>, Citation |-> <<>>, Note |-> <<>>]
NewDataRecord ==
  [Date |-> <<>>, Text |-> <<>>, UserDefined |-> <<>>]
NewSystemRecord ==
  [Xref |-> <<>>, Version |-> <<>>, ProductName |-> <<>>, BusinessName |-> <<>>,
   Address |-> NewAddressRecord, SourceName |-> <<>>, SourceDate |-> <<>>,
   SourceCopyright |-> <<>>, UserDefined |-> <<>>]
NewRecord(kind) ==
  CASE kind = "Header" ->
         [kind |-> kind, SourceSystem |-> NewSystemRecord, Destination |-> <<>>,
          Date |-> <<>>, Time |-> <<>>, Submitter |-> 0, Submission |-> 0,
          Filename |-> <<>>, Copyright |-> <<>>, Version |-> <<>>, Form |-> <<>>,
          CharacterSet |-> <<>>, CharacterSetVersion |-> <<>>, Language |-> <<>>,
          Place |-> NewPlaceRecord, Note |-> <<>>, UserDefined |-> <<>>]
    [] kind = "SubmissionRecord" ->
         [kind |-> kind, Xref |-> <<>>]
    [] kind = "SubmitterRecord" ->
         [kind |-> kind, Xref |-> <<>>, Name |-> <<>>, Address |-> 0, Media |-> <<>>,
          Language |-> <<>>, SubmitterRecordFileID |-> <<>>,
          AutomatedRecordId |-> <<>>, Note |-> <<>>, Change |-> 0]
    [] kind = "FamilyRecord" ->
         [kind |-> kind, Xref |-> <<>>, Husband |-> 0, Wife |-> 0, Child |-> <<>>,
          Event |-> <<>>, NumberOfChildren |-> <<>>, UserReference |-> <<>>,
          AutomatedRecordId |-> <<>>, Change |-> NewChangeRecord, Note |-> <<>>,
          Citation |-> <<>>, Media |-> <<>>, UserDefined |-> <<>>]
    [] kind = "IndividualRecord" ->
         [kind |-> kind, Xref |-> <<>>, Name |-> <<>>, Sex |-> <<>>, Event |-> <<>>,
          Attribute |-> <<>>, Parents |-> <<>>, Family |-> <<>>, Submitter |-> <<>>,
          Association |-> <<>>, PermanentRecordFileNumber |-> <<>>,
          AncestralFileNumber |-> <<>>, UserReference |-> <<>>,
          AutomatedRecordId |-> <<>>, Change |-> NewChangeRecord, Note |-> <<>>,
          Citation |-> <<>>, Media |-> <<>>, UserDefined |-> <<>>]
    [] kind = "MediaRecord" ->
         [kind |-> kind, Xref |-> <<>>, Title |-> <<>>, File |-> <<>>,
          UserReference |-> <<>>, AutomatedRecordId |-> <<>>,
          Change |-> NewChangeRecord, Note |-> <<>>, Citation |-> <<>>,
          UserDefined |-> <<>>]
    [] kind = "FileRecord" ->
         [kind |-> kind, Name |-> <<>>, Format |-> <<>>, FormatType |-> <<>>,
          Title |-> <<>>, UserDefined |-> <<>>]
    [] kind = "UserReferenceRecord" ->
         [kind |-> kind, Number |-> <<>>, Type |-> <<>>]
    [] kind = "RepositoryRecord" ->
         [kind |-> kind, Xref |-> <<>>, Name |-> <<>>, Address |-> NewAddressRecord,
          Note |-> <<>>, UserReference |-> <<>>, AutomatedRecordId |-> <<>>,
          Change |-> NewChangeRecord, UserDefined |-> <<>>]
    [] kind = "SourceRecord" ->
         [kind |-> kind, Xref |-> <<>>, Title |-> <<>>, Data |-> 0, Originator |-> <<>>,
          FiledBy |-> <<>>, PublicationFacts |-> <<>>, Text |-> <<>>, Repository |-> 0,
          UserReference |-> <<>>, AutomatedRecordId |-> <<>>,
          Change |-> NewChangeRecord, Note |-> <<>>, Media |-> <<>>,
          UserDefined |-> <<>>]
    [] kind = "SourceDataRecord" ->
         [kind |-> kind, Event |-> <<>>]
    [] kind = "SourceEventRecord" ->
         [kind |-> kind, Kind |-> <<>>, Date |-> <<>>, Place |-> <<>>]
    [] kind = "SourceRepositoryRecord" ->
         [kind |-> kind, Repository |-> 0, Note |-> <<>>, CallNumber |-> <<>>]
    [] kind = "SourceCallNumberRecord" ->
         [kind |-> kind, CallNumber |-> <<>>, MediaType |-> <<>>]
    [] kind = "CitationRecord" ->
         [kind |-> kind, Source |-> 0, Page |-> <<>>, Data |-> NewDataRecord,
          Quay |-> <<>>, Media |-> <<>>, Note |-> <<>>, UserDefined |-> <<>>]
    [] kind \in {"NameRecord", "VariantNameRecord"} ->
         [kind |-> kind, Name |-> <<>>, Type |-> <<>>, NamePiecePrefix |-> <<>>,
          NamePieceGiven |-> <<>>, NamePieceNick |-> <<>>,
          NamePieceSurnamePrefix |-> <<>>, NamePieceSurname |-> <<>>,
          NamePieceSuffix |-> <<>>, Phonetic |-> <<>>, Romanized |-> <<>>,
          Citation |-> <<>>, Note |-> <<>>, UserDefined |-> <<>>]
    [] kind = "EventRecord" ->
         [kind |-> kind, Tag |-> <<>>, Value |-> <<>>, Type |-> <<>>, Date |-> <<>>,
          Place |-> NewPlaceRecord, Address |-> NewAddressRecord, Age |-> <<>>,
          ResponsibleAgency |-> <<>>, ReligiousAffiliation |-> <<>>, Cause |-> <<>>,
          RestrictionNotice |-> <<>>, ChildInFamily |-> 0, AdoptedByParent |-> <<>>,
          Citation |-> <<>>, Media |-> <<>>, Note |-> <<>>, UserDefined |-> <<>>]
    [] kind = "NoteRecord" ->
         [kind |-> kind, Note |-> <<>>, Citation |-> <<>>]
    [] kind = "VariantPlaceNameRecord" ->
         [kind |-> kind, Name |-> <<>>, Type |-> <<>>]
    [] kind = "FamilyLinkRecord" ->
         [kind |-> kind, Family |-> 0, Type |-> <<>>, Note |-> <<>>]
    [] kind = "AddressDetail" ->
         [kind |-> kind, Full |-> <<>>, Line1 |-> <<>>, Line2 |-> <<>>, Line3 |-> <<>>,
          City |-> <<>>, State |-> <<>>, PostalCode |-> <<>>, Country |-> <<>>]
    [] kind = "UserDefinedTag" ->
         [kind |-> kind, Tag |-> <<>>, Value |-> <<>>, Xref |-> <<>>, Level |-> 0,
          UserDefined |-> <<>>]
    [] kind = "AssociationRecord" ->
         [kind |-> kind, Xref |-> <<>>, Relation |-> <<>>, Citation |-> <<>>,
          Note |-> <<>>]
\* &Gedcom{...} of Decode
NewGedcom ==
  [Header |-> 0, Family |-> <<>>, Individual |-> <<>>, Media |-> <<>>,
   Repository |-> <<>>, Source |-> <<>>, Submitter |-> <<>>, Trailer |-> 0,
   UserDefined |-> <<>>]

\* ------------------------------------------------------------------ decoder core
\* A parser closure: the function that made it (p), the object it mutates (obj,
\* with path naming the embedded struct or string field inside it), the level it
\* was pushed at and, for makeEventParser, the parent tag.
Handler(p, obj, path, minLevel) ==
  [p |-> p, obj |-> obj, path |-> path, minLevel |-> minLevel, parentTag |-> <<>>]

RECURSIVE GetPath(_, _)
GetPath(rec, path) ==
  IF Len(path) = 0 THEN rec ELSE GetPath(rec[Head(path)], Tail(path))
RECURSIVE SetPath(_, _, _)
SetPath(rec, path, v) ==
  IF Len(path) = 0 THEN v
  ELSE [rec EXCEPT ![Head(path)] = SetPath(@, Tail(path), v)]

\* x.f of the object a parser is bound to, x.f = v and x.f = append(x.f, v)
Field(dd, h, f) ==
  GetPath(dd.heap[h.obj], h.path \o <<f>>)
Assign(dd, h, f, v) ==
  [dd EXCEPT !.heap[h.obj] = SetPath(@, h.path \o <<f>>, v)]
AppendTo(dd, h, f, v) ==
  Assign(dd, h, f, Append(Field(dd, h, f), v))

\* &T{...}: a new object; its pointer is NextId of the decoder before the call
NextId(dd) ==
  Len(dd.heap) + 1
Alloc(dd, rec) ==
  [dd EXCEPT !.heap = Append(@, rec)]

\* NewDecoder followed by the first statements of Decode
NewDecoder ==
  [parsers |-> <<Handler("makeRootParser", 0, <<>>, 0)>>,
   refs |-> <<>>, heap |-> <<>>, g |-> NewGedcom, line |-> 0,
   tagLogger |-> FALSE, log |-> <<>>, calls |-> <<>>, looked |-> <<>>,
   panic |-> FALSE]

pushParser(dd, p) ==
  [dd EXCEPT !.parsers = Append(@, p)]

RECURSIVE Dispatch(_, _)
popParser(dd, l) ==
  LET n == Len(dd.parsers) - 1 IN
  IF n < 1 THEN [dd EXCEPT !.panic = TRUE]
  ELSE Dispatch([dd EXCEPT !.parsers = SubSeq(@, 1, n)], l)

\* The type assertion on d.refs[xref] when it never holds
FoundNever(dd, kind, xref) ==
  FALSE
\* d.refs[xref].(*T): the entry exists and holds a record of that type
Found(dd, kind, xref) ==
  /\ xref \in DOMAIN dd.refs
  /\ dd.heap[dd.refs[xref]].kind = kind
\* Create without the test of xref == "": the empty xref is registered too
CreateRegistered(dd, kind, xref) ==
  IF ~Found(dd, kind, xref)
    THEN [d |-> [Alloc(dd, [NewRecord(kind) EXCEPT !.Xref = xref])
                   EXCEPT !.refs = [x \in DOMAIN dd.refs \cup {xref} |->
                                      IF x = xref THEN NextId(dd) ELSE dd.refs[x]]],
          ref |-> NextId(dd)]
  ELSE [d |-> dd, ref |-> dd.refs[xref]]
\* The body shared by Decoder.individual, family, source, submitter, submission,
\* repository and media: the decoder after the call and the pointer returned.
Create(dd, kind, xref) ==
  IF xref = <<>>
    THEN [d |-> Alloc(dd, NewRecord(kind)), ref |-> NextId(dd)]
  ELSE IF ~Found(dd, kind, xref)
    THEN [d |-> [Alloc(dd, [NewRecord(kind) EXCEPT !.Xref = xref])
                   EXCEPT !.refs = [x \in DOMAIN dd.refs \cup {xref} |->
                                      IF x = xref THEN NextId(dd) ELSE dd.refs[x]]],
          ref |-> NextId(dd)]
  ELSE [d |-> dd, ref |-> dd.refs[xref]]
\* looked records every call: its arguments and the pointer it returned.
Lookup(dd, kind, xref) ==
  LET r == Create(dd, kind, xref) IN
  [d |-> [r.d EXCEPT !.looked = Append(@, [kind |-> kind, xref |-> xref, ref |-> r.ref])],
   ref |-> r.ref]
\* unhandledTag without the test of d.tagLogger == nil: Output is called on
\* a nil *log.Logger
unhandledTagUnchecked(dd, l) ==
  IF ~dd.tagLogger THEN [dd EXCEPT !.panic = TRUE]
  ELSE [dd EXCEPT !.log = Append(@, [line |-> dd.line, level |-> l.level,
                                     tag |-> l.tag, value |-> l.value, xref |-> l.xref])]
unhandledTag(dd, l) ==
  IF ~dd.tagLogger THEN dd
  ELSE [dd EXCEPT !.log = Append(@, [line |-> dd.line, level |-> l.level,
                                     tag |-> l.tag, value |-> l.value, xref |-> l.xref])]

\* ------------------------------------------------------------------ statement patterns
\* PushChild when the handler is made with level + 1 for its minLevel
PushChildBelow(dd, h, l, f, rec, p) ==
  pushParser(AppendTo(Alloc(dd, rec), h, f, NextId(dd)),
             Handler(p, NextId(dd), <<>>, l.level + 1))
\* r := &T{...}; x.f = append(x.f, r); d.pushParser(makeP(d, r, level))
PushChild(dd, h, l, f, rec, p) ==
  pushParser(AppendTo(Alloc(dd, rec), h, f, NextId(dd)),
             Handler(p, NextId(dd), <<>>, l.level))
\* UserDefinedChild when the literal leaves out Xref: xref
UserDefinedChildAnonymous(dd, h, l) ==
  PushChild(dd, h, l, "UserDefined",
            [NewRecord("UserDefinedTag") EXCEPT !.Tag = l.tag, !.Value = l.value,
                                                !.Level = l.level],
            "makeUserDefinedTagParser")
\* x.UserDefined = append(x.UserDefined, UserDefinedTag{Tag, Value, Xref, Level});
\* d.pushParser(makeUserDefinedTagParser(d, &x.UserDefined[len-1], level))
UserDefinedChild(dd, h, l) ==
  PushChild(dd, h, l, "UserDefined",
            [NewRecord("UserDefinedTag") EXCEPT !.Tag = l.tag, !.Value = l.value,
                                                !.Xref = l.xref, !.Level = l.level],
            "makeUserDefinedTagParser")
\* r := &NoteRecord{Note: value}; x.Note = append(x.Note, r); push makeNoteParser
NoteChild(dd, h, l) ==
  PushChild(dd, h, l, "Note", [NewRecord("NoteRecord") EXCEPT !.Note = l.value],
            "makeNoteParser")
\* c := &CitationRecord{Source: d.source(stripXref(value))}; x.Citation = append(..);
\* push makeCitationParser
CitationChild(dd, h, l) ==
  LET s == Lookup(dd, "SourceRecord", stripXref(l.value)) IN
  PushChild(s.d, h, l, "Citation",
            [NewRecord("CitationRecord") EXCEPT !.Source = s.ref],
            "makeCitationParser")
\* m := &MediaRecord{Xref: stripXref(value)}; x.Media = append(..); push makeMediaParser
MediaChild(dd, h, l) ==
  PushChild(dd, h, l, "Media",
            [NewRecord("MediaRecord") EXCEPT !.Xref = stripXref(l.value)],
            "makeMediaParser")
\* e := &EventRecord{Tag: tag, Value: value}; x.f = append(..); push makeEventParser
EventChild(dd, h, l, f) ==
  LET e == Alloc(dd, [NewRecord("EventRecord") EXCEPT !.Tag = l.tag, !.Value = l.value])
  IN pushParser(AppendTo(e, h, f, NextId(dd)),
                [Handler("makeEventParser", NextId(dd), <<>>, l.level)
                   EXCEPT !.parentTag = l.tag])
\* r := &UserReferenceRecord{Number: value}; append; push makeUserReferenceParser
UserReferenceChild(dd, h, l) ==
  PushChild(dd, h, l, "UserReference",
            [NewRecord("UserReferenceRecord") EXCEPT !.Number = l.value],
            "makeUserReferenceParser")
\* x.f = value; d.pushParser(makeP(d, &x.f, level))
TextField(dd, h, l, f, p) ==
  pushParser(Assign(dd, h, f, l.value), Handler(p, h.obj, h.path \o <<f>>, l.level))
\* d.pushParser(makeP(d, &x.f, level)) for an embedded struct f (sub = <<f>>), or
\* makeP(d, x, level) for the same object (sub = <<>>)
PushSame(dd, h, l, sub, p) ==
  pushParser(dd, Handler(p, h.obj, h.path \o sub, l.level))

\* ------------------------------------------------------------------ parsers
\* Every parser takes the decoder, its own closure h and the line l, and gives
\* the decoder after the call.
\* The switch of makeRootParser, taken when level == 0
RootRecord(dd, h, l) ==
       CASE l.tag = T.HEAD ->
              pushParser([Alloc(dd, NewRecord("Header")) EXCEPT !.g.Header = NextId(dd)],
                         Handler("makeHeaderParser", NextId(dd), <<>>, l.level))
         [] l.tag = T.INDI ->
              LET r == Lookup(dd, "IndividualRecord", l.xref) IN
              pushParser([r.d EXCEPT !.g.Individual = Append(@, r.ref)],
                         Handler("makeIndividualParser", r.ref, <<>>, l.level))
         [] l.tag = T.SUBM ->
              [Alloc(dd, NewRecord("SubmitterRecord"))
                 EXCEPT !.g.Submitter = Append(@, NextId(dd))]
         [] l.tag = T.FAM ->
              LET r == Lookup(dd, "FamilyRecord", l.xref) IN
              pushParser([r.d EXCEPT !.g.Family = Append(@, r.ref)],
                         Handler("makeFamilyParser", r.ref, <<>>, l.level))
         [] l.tag = T.SOUR ->
              LET r == Lookup(dd, "SourceRecord", l.xref) IN
              pushParser([r.d EXCEPT !.g.Source = Append(@, r.ref)],
                         Handler("makeSourceParser", r.ref, <<>>, l.level))
         [] l.tag = T.REPO ->
              LET r == Lookup(dd, "RepositoryRecord", l.xref) IN
              pushParser([r.d EXCEPT !.g.Repository = Append(@, r.ref)],
                         Handler("makeRepositoryParser", r.ref, <<>>, l.level))
         [] l.tag = T.OBJE ->
              LET r == Lookup(dd, "MediaRecord", l.xref) IN
              pushParser([r.d EXCEPT !.g.Media = Append(@, r.ref)],
                         Handler("makeMediaParser", r.ref, <<>>, l.level))
         [] OTHER ->
              pushParser([Alloc(dd, [NewRecord("UserDefinedTag")
                                       EXCEPT !.Tag = l.tag, !.Value = l.value,
                                              !.Xref = l.xref, !.Level = l.level])
                            EXCEPT !.g.UserDefined = Append(@, NextId(dd))],
                         Handler("makeUserDefinedTagParser", NextId(dd), <<>>, l.level))

\* makeRootParser returning through popParser on a line below level 0
makeRootParserPopping(dd, h, l) ==
  IF l.level = 0 THEN RootRecord(dd, h, l) ELSE popParser(dd, l)
makeRootParser(dd, h, l) ==
  IF l.level = 0 THEN RootRecord(dd, h, l) ELSE dd

\* FAMC and FAMS of makeIndividualParser: family := d.family(stripXref(value));
\* f := &FamilyLinkRecord{Family: family}; append; push makeFamilyLinkParser
FamilyLinkChild(dd, h, l, f) ==
  LET r == Lookup(dd, "FamilyRecord", stripXref(l.value)) IN
  PushChild(r.d, h, l, f, [NewRecord("FamilyLinkRecord") EXCEPT !.Family = r.ref],
            "makeFamilyLinkParser")

makeIndividualParser(dd, h, l) ==
  IF l.level <= h.minLevel THEN popParser(dd, l)
  ELSE CASE l.tag = T.NAME ->
              PushChild(dd, h, l, "Name", [NewRecord("NameRecord") EXCEPT !.Name = l.value],
                        "makeNameParser")
         [] l.tag = T.SEX -> Assign(dd, h, "Sex", l.value)
         [] l.tag \in {T.BIRT, T.CHR, T.DEAT, T.BURI, T.CREM, T.ADOP, T.BAPM, T.BARM,
                       T.BASM, T.BLES, T.CHRA, T.CONF, T.FCOM, T.ORDN, T.NATU, T.EMIG,
                       T.IMMI, T.CENS, T.PROB, T.WILL, T.GRAD, T.RETI, T.EVEN} ->
              EventChild(dd, h, l, "Event")
         [] l.tag \in {T.CAST, T.DSCR, T.EDUC, T.IDNO, T.NATI, T.NCHI, T.NMR, T.OCCU,
                       T.PROP, T.RELI, T.RESI, T.SSN, T.TITL, T.FACT} ->
              EventChild(dd, h, l, "Attribute")
         [] l.tag = T.FAMC -> FamilyLinkChild(dd, h, l, "Parents")
         [] l.tag = T.SUBM ->
              LET r == Lookup(dd, "SubmitterRecord", stripXref(l.value)) IN
              AppendTo(r.d, h, "Submitter", r.ref)
         [] l.tag = T.ASSO ->
              PushChild(dd, h, l, "Association",
                        [NewRecord("AssociationRecord") EXCEPT !.Xref = stripXref(l.value)],
                        "makeAssociationParser")
         [] l.tag = T.ALIA ->
              IF l.xref = <<>> /\ l.value # <<>>
                THEN AppendTo(Alloc(dd, [NewRecord("NameRecord") EXCEPT !.Name = l.value]),
                              h, "Name", NextId(dd))
                ELSE dd
         [] l.tag = T.RFN -> Assign(dd, h, "PermanentRecordFileNumber", l.value)
         [] l.tag = T.AFN -> Assign(dd, h, "AncestralFileNumber", l.value)
         [] l.tag = T.FAMS -> FamilyLinkChild(dd, h, l, "Family")
         [] l.tag = T.REFN -> UserReferenceChild(dd, h, l)
         [] l.tag = T.RIN -> Assign(dd, h, "AutomatedRecordId", l.value)
         [] l.tag = T.CHAN -> PushSame(dd, h, l, <<"Change">>, "makeChangeParser")
         [] l.tag = T.NOTE -> NoteChild(dd, h, l)
         [] l.tag = T.SOUR -> CitationChild(dd, h, l)
         [] l.tag = T.OBJE -> MediaChild(dd, h, l)
         [] OTHER -> UserDefinedChild(dd, h, l)

\* The name-piece cases shared by makeNameParser and makeVariantNameParser
NamePiece(dd, h, l) ==
  CASE l.tag = T.TYPE -> Assign(dd, h, "Type", l.value)
    [] l.tag = T.NPFX -> Assign(dd, h, "NamePiecePrefix", l.value)
    [] l.tag = T.GIVN -> Assign(dd, h, "NamePieceGiven", l.value)
    [] l.tag = T.NICK -> Assign(dd, h, "NamePieceNick", l.value)
    [] l.tag = T.SPFX -> Assign(dd, h, "NamePieceSurnamePrefix", l.value)
    [] l.tag = T.SURN -> Assign(dd, h, "NamePieceSurname", l.value)
    [] l.tag = T.NSFX -> Assign(dd, h, "NamePieceSuffix", l.value)
    [] l.tag = T.SOUR -> CitationChild(dd, h, l)
    [] l.tag = T.NOTE -> NoteChild(dd, h, l)
    [] OTHER -> unhandledTag(dd, l)

makeNameParser(dd, h, l) ==
  IF l.level <= h.minLevel THEN popParser(dd, l)
  ELSE CASE l.tag = T.FONE ->
              PushChild(dd, h, l, "Phonetic",
                        [NewRecord("VariantNameRecord") EXCEPT !.Name = l.value],
                        "makeVariantNameParser")
         [] l.tag = T.ROMN ->
              PushChild(dd, h, l, "Romanized",
                        [NewRecord("VariantNameRecord") EXCEPT !.Name = l.value],
                        "makeVariantNameParser")
         [] OTHER -> NamePiece(dd, h, l)

makeVariantNameParser(dd, h, l) ==
  IF l.level <= h.minLevel THEN popParser(dd, l)
  ELSE NamePiece(dd, h, l)

makeSourceParser(dd, h, l) ==
  IF l.level <= h.minLevel THEN popParser(dd, l)
  ELSE CASE l.tag = T.DATA ->
              IF Field(dd, h, "Data") = 0
                THEN pushParser(Assign(Alloc(dd, NewRecord("SourceDataRecord")),
                                       h, "Data", NextId(dd)),
                                Handler("makeSourceDataParser", NextId(dd), <<>>, l.level))
                ELSE pushParser(dd, Handler("makeSourceDataParser", Field(dd, h, "Data"),
                                            <<>>, l.level))
         [] l.tag = T.TITL -> TextField(dd, h, l, "Title", "makeTextParser")
         [] l.tag = T.ABBR -> Assign(dd, h, "FiledBy", l.value)
         [] l.tag = T.AUTH -> TextField(dd, h, l, "Originator", "makeTextParser")
         [] l.tag = T.PUBL ->
              TextField(dd, h, l, "PublicationFacts", "makePublicationFactsParser")
         [] l.tag = T.TEXT -> TextField(dd, h, l, "Text", "makeTextParser")
         [] l.tag = T.REPO ->
              LET r == Lookup(dd, "RepositoryRecord", stripXref(l.value)) IN
              pushParser(Assign(Alloc(r.d, [NewRecord("SourceRepositoryRecord")
                                              EXCEPT !.Repository = r.ref]),
                                h, "Repository", NextId(r.d)),
                         Handler("makeSourceRepositoryParser", NextId(r.d), <<>>, l.level))
         [] l.tag = T.REFN -> UserReferenceChild(dd, h, l)
         [] l.tag = T.RIN -> Assign(dd, h, "AutomatedRecordId", l.value)
         [] l.tag = T.CHAN -> PushSame(dd, h, l, <<"Change">>, "makeChangeParser")
         [] l.tag = T.NOTE -> NoteChild(dd, h, l)
         [] l.tag = T.OBJE -> MediaChild(dd, h, l)
         [] OTHER -> UserDefinedChild(dd, h, l)

makeSourceDataParser(dd, h, l) ==
  IF l.level <= h.minLevel THEN popParser(dd, l)
  ELSE CASE l.tag = T.EVEN ->
              PushChild(dd, h, l, "Event",
                        [NewRecord("SourceEventRecord") EXCEPT !.Kind = l.value],
                        "makeSourceEventParser")
         [] OTHER -> unhandledTag(dd, l)

makeSourceEventParser(dd, h, l) ==
  IF l.level <= h.minLevel THEN popParser(dd, l)
  ELSE CASE l.tag = T.DATE -> Assign(dd, h, "Date", l.value)
         [] l.tag = T.PLAC -> Assign(dd, h, "Place", l.value)
         [] OTHER -> unhandledTag(dd, l)

makeSourceRepositoryParser(dd, h, l) ==
  IF l.level <= h.minLevel THEN popParser(dd, l)
  ELSE CASE l.tag = T.NOTE -> NoteChild(dd, h, l)
         [] l.tag = T.CALN ->
              PushChild(dd, h, l, "CallNumber",
                        [NewRecord("SourceCallNumberRecord") EXCEPT !.CallNumber = l.value],
                        "makeSourceCallNumberParser")
         [] OTHER -> unhandledTag(dd, l)

makeSourceCallNumberParser(dd, h, l) ==
  IF l.level <= h.minLevel THEN popParser(dd, l)
  ELSE CASE l.tag = T.MEDI -> Assign(dd, h, "MediaType", l.value)
         [] OTHER -> unhandledTag(dd, l)

makeCitationParser(dd, h, l) ==
  IF l.level <= h.minLevel THEN popParser(dd, l)
  ELSE CASE l.tag = T.PAGE -> Assign(dd, h, "Page", l.value)
         [] l.tag = T.QUAY -> Assign(dd, h, "Quay", l.value)
         [] l.tag = T.NOTE -> NoteChild(dd, h, l)
         [] l.tag = T.DATA -> PushSame(dd, h, l, <<"Data">>, "makeDataParser")
         [] OTHER -> UserDefinedChild(dd, h, l)

makeNoteParser(dd, h, l) ==
  IF l.level <= h.minLevel THEN popParser(dd, l)
  ELSE CASE l.tag = T.CONT -> Assign(dd, h, "Note", Field(dd, h, "Note") \o <<"\n">> \o l.value)
         [] l.tag = T.CONC -> Assign(dd, h, "Note", Field(dd, h, "Note") \o l.value)
         [] l.tag = T.SOUR -> CitationChild(dd, h, l)
         [] OTHER -> unhandledTag(dd, l)

\* *s of makeTextParser and makePublicationFactsParser, and *s = v
Deref(dd, h) ==
  GetPath(dd.heap[h.obj], h.path)
Store(dd, h, v) ==
  [dd EXCEPT !.heap[h.obj] = SetPath(@, h.path, v)]

\* makeTextParser joining CONT values without the newline
makeTextParserJoining(dd, h, l) ==
  IF l.level <= h.minLevel THEN popParser(dd, l)
  ELSE CASE l.tag = T.CONT -> Store(dd, h, Deref(dd, h) \o l.value)
         [] l.tag = T.CONC -> Store(dd, h, Deref(dd, h) \o l.value)
         [] OTHER -> unhandledTag(dd, l)
makeTextParser(dd, h, l) ==
  IF l.level <= h.minLevel THEN popParser(dd, l)
  ELSE CASE l.tag = T.CONT -> Store(dd, h, Deref(dd, h) \o <<"\n">> \o l.value)
         [] l.tag = T.CONC -> Store(dd, h, Deref(dd, h) \o l.value)
         [] OTHER -> unhandledTag(dd, l)

\* makePublicationFactsParser without the tests of *s != ""
makePublicationFactsParserSeparating(dd, h, l) ==
  IF l.level <= h.minLevel THEN popParser(dd, l)
  ELSE CASE l.tag = T.CONT -> Store(dd, h, Deref(dd, h) \o <<"\n">> \o l.value)
         [] l.tag = T.CONC -> Store(dd, h, Deref(dd, h) \o l.value)
         [] l.tag \in {T.DATE, T.PLAC} ->
              Store(dd, h, Deref(dd, h) \o <<",", " ">> \o l.value)
         [] OTHER -> unhandledTag(dd, l)
makePublicationFactsParser(dd, h, l) ==
  IF l.level <= h.minLevel THEN popParser(dd, l)
  ELSE CASE l.tag = T.CONT -> Store(dd, h, Deref(dd, h) \o <<"\n">> \o l.value)
         [] l.tag = T.CONC -> Store(dd, h, Deref(dd, h) \o l.value)
         [] l.tag \in {T.DATE, T.PLAC} ->
              Store(dd, h, (IF Deref(dd, h) # <<>> THEN Deref(dd, h) \o <<",", " ">>
                            ELSE Deref(dd, h)) \o l.value)
         [] OTHER -> unhandledTag(dd, l)

makeDataParser(dd, h, l) ==
  IF l.level <= h.minLevel THEN popParser(dd, l)
  ELSE CASE l.tag = T.DATE -> Assign(dd, h, "Date", l.value)
         [] l.tag = T.TEXT ->
              pushParser(AppendTo(dd, h, "Text", l.value),
                         Handler("makeTextParser", h.obj,
                                 h.path \o <<"Text", Len(Field(dd, h, "Text")) + 1>>,
                                 l.level))
         [] OTHER -> UserDefinedChild(dd, h, l)

\* tryAddressTags on the AddressRecord the closure a is bound to: the decoder
\* after the call and whether a tag matched.
\* tryAddressTags with case "WWW" alone: URL is not matched
tryAddressTagsWWW(dd, a, l) ==
  CASE l.tag = T.ADDR ->
         [d |-> PushChild(dd, a, l, "Address",
                          [NewRecord("AddressDetail") EXCEPT !.Full = l.value],
                          "makeAddressDetailParser"),
          matched |-> TRUE]
    [] l.tag = T.PHON -> [d |-> AppendTo(dd, a, "Phone", l.value), matched |-> TRUE]
    [] l.tag = T.EMAIL -> [d |-> AppendTo(dd, a, "Email", l.value), matched |-> TRUE]
    [] l.tag = T.FAX -> [d |-> AppendTo(dd, a, "Fax", l.value), matched |-> TRUE]
    [] l.tag = T.WWW -> [d |-> AppendTo(dd, a, "WWW", l.value), matched |-> TRUE]
    [] OTHER -> [d |-> dd, matched |-> FALSE]
tryAddressTags(dd, a, l) ==
  CASE l.tag = T.ADDR ->
         [d |-> PushChild(dd, a, l, "Address",
                          [NewRecord("AddressDetail") EXCEPT !.Full = l.value],
                          "makeAddressDetailParser"),
          matched |-> TRUE]
    [] l.tag = T.PHON -> [d |-> AppendTo(dd, a, "Phone", l.value), matched |-> TRUE]
    [] l.tag = T.EMAIL -> [d |-> AppendTo(dd, a, "Email", l.value), matched |-> TRUE]
    [] l.tag = T.FAX -> [d |-> AppendTo(dd, a, "Fax", l.value), matched |-> TRUE]
    [] l.tag \in {T.WWW, T.URL} -> [d |-> AppendTo(dd, a, "WWW", l.value), matched |-> TRUE]
    [] OTHER -> [d |-> dd, matched |-> FALSE]
\* &x.Address
AddressOf(h) ==
  [h EXCEPT !.path = @ \o <<"Address">>]

makeEventParser(dd, h, l) ==
  IF l.level <= h.minLevel THEN popParser(dd, l)
  ELSE IF h.parentTag \in {T.BIRT, T.CHR} /\ l.tag = T.FAMC
    THEN LET r == Lookup(dd, "FamilyRecord", stripXref(l.value)) IN Assign(r.d, h, "ChildInFamily", r.ref)
  ELSE IF h.parentTag = T.ADOP /\ l.tag = T.FAMC
    THEN LET r == Lookup(dd, "FamilyRecord", stripXref(l.value)) IN
         PushSame(Assign(r.d, h, "ChildInFamily", r.ref), h, l, <<>>, "makeEventAdoptParser")
  ELSE CASE l.tag = T.TYPE -> Assign(dd, h, "Type", l.value)
         [] l.tag = T.DATE -> Assign(dd, h, "Date", l.value)
         [] l.tag = T.PLAC ->
              PushSame(Assign(dd, [h EXCEPT !.path = @ \o <<"Place">>], "Name", l.value),
                       h, l, <<"Place">>, "makePlaceParser")
         [] l.tag = T.AGNC -> Assign(dd, h, "ResponsibleAgency", l.value)
         [] l.tag = T.RELI -> Assign(dd, h, "ReligiousAffiliation", l.value)
         [] l.tag = T.CAUS -> Assign(dd, h, "Cause", l.value)
         [] l.tag = T.RESN -> Assign(dd, h, "RestrictionNotice", l.value)
         [] l.tag = T.NOTE -> NoteChild(dd, h, l)
         [] l.tag = T.SOUR -> CitationChild(dd, h, l)
         [] l.tag = T.OBJE -> MediaChild(dd, h, l)
         [] OTHER ->
              LET a == tryAddressTags(dd, AddressOf(h), l) IN
              IF a.matched THEN a.d ELSE UserDefinedChild(dd, h, l)

\* makeEventAdoptParser without its case "ADOP"
makeEventAdoptParserUnhandled(dd, h, l) ==
  IF l.level <= h.minLevel THEN popParser(dd, l)
  ELSE unhandledTag(dd, l)
makeEventAdoptParser(dd, h, l) ==
  IF l.level <= h.minLevel THEN popParser(dd, l)
  ELSE CASE l.tag = T.ADOP -> Assign(dd, h, "AdoptedByParent", l.value)
         [] OTHER -> unhandledTag(dd, l)

makePlaceParser(dd, h, l) ==
  IF l.level <= h.minLevel THEN popParser(dd, l)
  ELSE CASE l.tag = T.FONE ->
              PushChild(dd, h, l, "Phonetic",
                        [NewRecord("VariantPlaceNameRecord") EXCEPT !.Name = l.value],
                        "makeVariantPlaceNameRecordParser")
         [] l.tag = T.ROMN ->
              PushChild(dd, h, l, "Romanized",
                        [NewRecord("VariantPlaceNameRecord") EXCEPT !.Name = l.value],
                        "makeVariantPlaceNameRecordParser")
         [] l.tag = T.MAP -> PushSame(dd, h, l, <<>>, "makePlaceMapParser")
         [] l.tag = T.SOUR -> CitationChild(dd, h, l)
         [] l.tag = T.NOTE -> NoteChild(dd, h, l)
         [] OTHER -> unhandledTag(dd, l)

makePlaceMapParser(dd, h, l) ==
  IF l.level <= h.minLevel THEN popParser(dd, l)
  ELSE CASE l.tag = T.LATI -> Assign(dd, h, "Latitude", l.value)
         [] l.tag = T.LONG -> Assign(dd, h, "Longitude", l.value)
         [] OTHER -> unhandledTag(dd, l)

makeVariantPlaceNameRecordParser(dd, h, l) ==
  IF l.level <= h.minLevel THEN popParser(dd, l)
  ELSE CASE l.tag = T.TYPE -> Assign(dd, h, "Type", l.value)
         [] OTHER -> unhandledTag(dd, l)

makeFamilyLinkParser(dd, h, l) ==
  IF l.level <= h.minLevel THEN popParser(dd, l)
  ELSE CASE l.tag = T.PEDI -> Assign(dd, h, "Type", l.value)
         [] l.tag = T.NOTE -> NoteChild(dd, h, l)
         [] OTHER -> unhandledTag(dd, l)

makeFamilyParser(dd, h, l) ==
  IF l.level <= h.minLevel THEN popParser(dd, l)
  ELSE CASE l.tag = T.HUSB ->
              LET r == Lookup(dd, "IndividualRecord", stripXref(l.value)) IN Assign(r.d, h, "Husband", r.ref)
         [] l.tag = T.WIFE ->
              LET r == Lookup(dd, "IndividualRecord", stripXref(l.value)) IN Assign(r.d, h, "Wife", r.ref)
         [] l.tag = T.CHIL ->
              LET r == Lookup(dd, "IndividualRecord", stripXref(l.value)) IN AppendTo(r.d, h, "Child", r.ref)
         [] l.tag \in {T.ANUL, T.CENS, T.DIV, T.DIVF, T.ENGA, T.MARR, T.MARB, T.MARC,
                       T.MARL, T.MARS, T.EVEN, T.RESI} ->
              EventChild(dd, h, l, "Event")
         [] l.tag = T.NCHI -> Assign(dd, h, "NumberOfChildren", l.value)
         [] l.tag = T.REFN -> UserReferenceChild(dd, h, l)
         [] l.tag = T.RIN -> Assign(dd, h, "AutomatedRecordId", l.value)
         [] l.tag = T.CHAN -> PushSame(dd, h, l, <<"Change">>, "makeChangeParser")
         [] l.tag = T.NOTE -> NoteChild(dd, h, l)
         [] l.tag = T.SOUR -> CitationChild(dd, h, l)
         [] l.tag = T.OBJE -> MediaChild(dd, h, l)
         [] OTHER -> UserDefinedChild(dd, h, l)

\* FILE, FORM and TITL of makeMediaParser: the last FileRecord of m.File (a new
\* one when there is none) gets field f = value, and parser p is pushed on it
\* (on &f.Title for TITL).
MediaFile(dd, h, l, f, p) ==
  LET files == Field(dd, h, "File")
      d1 == IF Len(files) = 0
              THEN AppendTo(Alloc(dd, NewRecord("FileRecord")), h, "File", NextId(dd))
              ELSE dd
      id == IF Len(files) = 0 THEN NextId(dd) ELSE files[Len(files)]
      fh == Handler(p, id, <<>>, l.level)
  IN IF p = "makeTextParser" THEN TextField(d1, fh, l, f, p)
     ELSE pushParser(Assign(d1, fh, f, l.value), fh)

makeMediaParser(dd, h, l) ==
  IF l.level <= h.minLevel THEN popParser(dd, l)
  ELSE CASE l.tag = T.FILE -> MediaFile(dd, h, l, "Name", "makeMediaFileParser")
         [] l.tag = T.FORM -> MediaFile(dd, h, l, "Format", "makeMediaFileFormatParser")
         [] l.tag = T.TITL -> MediaFile(dd, h, l, "Title", "makeTextParser")
         [] l.tag = T.RIN -> Assign(dd, h, "AutomatedRecordId", l.value)
         [] l.tag = T.REFN -> UserReferenceChild(dd, h, l)
         [] l.tag = T.NOTE -> NoteChild(dd, h, l)
         [] l.tag = T.SOUR -> CitationChild(dd, h, l)
         [] l.tag = T.CHAN -> PushSame(dd, h, l, <<"Change">>, "makeChangeParser")
         [] OTHER -> UserDefinedChild(dd, h, l)

makeMediaFileParser(dd, h, l) ==
  IF l.level <= h.minLevel THEN popParser(dd, l)
  ELSE CASE l.tag = T.FORM ->
              PushSame(Assign(dd, h, "Format", l.value), h, l, <<>>,
                       "makeMediaFileFormatParser")
         [] l.tag = T.TITL -> TextField(dd, h, l, "Title", "makeTextParser")
         [] OTHER -> unhandledTag(dd, l)

makeMediaFileFormatParser(dd, h, l) ==
  IF l.level <= h.minLevel THEN popParser(dd, l)
  ELSE CASE l.tag = T.TYPE -> Assign(dd, h, "FormatType", l.value)
         [] OTHER -> UserDefinedChild(dd, h, l)

makeUserReferenceParser(dd, h, l) ==
  IF l.level <= h.minLevel THEN popParser(dd, l)
  ELSE CASE l.tag = T.TYPE -> Assign(dd, h, "Type", l.value)
         [] OTHER -> unhandledTag(dd, l)

makeAddressDetailParser(dd, h, l) ==
  IF l.level <= h.minLevel THEN popParser(dd, l)
  ELSE CASE l.tag = T.CONT -> Assign(dd, h, "Full", Field(dd, h, "Full") \o <<"\n">> \o l.value)
         [] l.tag = T.CONC -> Assign(dd, h, "Full", Field(dd, h, "Full") \o l.value)
         [] l.tag = T.ADR1 -> Assign(dd, h, "Line1", l.value)
         [] l.tag = T.ADR2 -> Assign(dd, h, "Line2", l.value)
         [] l.tag = T.ADR3 -> Assign(dd, h, "Line3", l.value)
         [] l.tag = T.CITY -> Assign(dd, h, "City", l.value)
         [] l.tag = T.STAE -> Assign(dd, h, "State", l.value)
         [] l.tag = T.POST -> Assign(dd, h, "PostalCode", l.value)
         [] l.tag = T.CTRY -> Assign(dd, h, "Country", l.value)
         [] OTHER -> dd

makeHeaderParser(dd, h, l) ==
  IF l.level <= h.minLevel THEN popParser(dd, l)
  ELSE CASE l.tag = T.SOUR ->
              PushSame(Assign(dd, [h EXCEPT !.path = @ \o <<"SourceSystem">>], "Xref", l.value),
                       h, l, <<"SourceSystem">>, "makeSystemParser")
         [] l.tag = T.DEST -> Assign(dd, h, "Destination", l.value)
         [] l.tag = T.DATE ->
              PushSame(Assign(dd, h, "Date", l.value), h, l, <<>>, "makeHeaderTimeParser")
         [] l.tag = T.FILE -> Assign(dd, h, "Filename", l.value)
         [] l.tag = T.COPR -> Assign(dd, h, "Copyright", l.value)
         [] l.tag = T.GEDC -> PushSame(dd, h, l, <<>>, "makeHeaderVersionParser")
         [] l.tag = T.LANG -> Assign(dd, h, "Language", l.value)
         [] l.tag = T.NOTE -> TextField(dd, h, l, "Note", "makeTextParser")
         [] l.tag = T.SUBM ->
              LET r == Lookup(dd, "SubmitterRecord", stripXref(l.value)) IN Assign(r.d, h, "Submitter", r.ref)
         [] l.tag = T.SUBN ->
              LET r == Lookup(dd, "SubmissionRecord", stripXref(l.value)) IN Assign(r.d, h, "Submission", r.ref)
         [] l.tag = T.CHAR ->
              PushSame(Assign(dd, h, "CharacterSet", l.value), h, l, <<>>,
                       "makeHeaderCharacterSetVersionParser")
         [] OTHER -> UserDefinedChild(dd, h, l)

makeHeaderTimeParser(dd, h, l) ==
  IF l.level <= h.minLevel THEN popParser(dd, l)
  ELSE CASE l.tag = T.TIME -> Assign(dd, h, "Time", l.value)
         [] OTHER -> unhandledTag(dd, l)

makeHeaderVersionParser(dd, h, l) ==
  IF l.level <= h.minLevel THEN popParser(dd, l)
  ELSE CASE l.tag = T.VERS -> Assign(dd, h, "Version", l.value)
         [] l.tag = T.FORM -> Assign(dd, h, "Form", l.value)
         [] OTHER -> unhandledTag(dd, l)

makeHeaderCharacterSetVersionParser(dd, h, l) ==
  IF l.level <= h.minLevel THEN popParser(dd, l)
  ELSE CASE l.tag = T.VERS -> Assign(dd, h, "CharacterSetVersion", l.value)
         [] OTHER -> unhandledTag(dd, l)

makeSystemParser(dd, h, l) ==
  IF l.level <= h.minLevel THEN popParser(dd, l)
  ELSE CASE l.tag = T.VERS -> Assign(dd, h, "Version", l.value)
         [] l.tag = T.NAME -> Assign(dd, h, "ProductName", l.value)
         [] l.tag = T.CORP ->
              PushSame(Assign(dd, h, "BusinessName", l.value), h, l, <<>>, "makeCorpParser")
         [] l.tag = T.DATA ->
              PushSame(Assign(dd, h, "SourceName", l.value), h, l, <<>>,
                       "makeDataSourceParser")
         [] OTHER -> UserDefinedChild(dd, h, l)

makeCorpParser(dd, h, l) ==
  IF l.level <= h.minLevel THEN popParser(dd, l)
  ELSE tryAddressTags(dd, AddressOf(h), l).d

makeDataSourceParser(dd, h, l) ==
  IF l.level <= h.minLevel THEN popParser(dd, l)
  ELSE CASE l.tag = T.DATE -> Assign(dd, h, "SourceDate", l.value)
         [] l.tag = T.COPR -> TextField(dd, h, l, "SourceCopyright", "makeTextParser")
         [] OTHER -> unhandledTag(dd, l)

makeChangeParser(dd, h, l) ==
  IF l.level <= h.minLevel THEN popParser(dd, l)
  ELSE CASE l.tag = T.DATE ->
              PushSame(Assign(dd, h, "Date", l.value), h, l, <<>>, "makeChangeTimeParser")
         [] l.tag = T.NOTE -> NoteChild(dd, h, l)
         [] OTHER -> unhandledTag(dd, l)

makeChangeTimeParser(dd, h, l) ==
  IF l.level <= h.minLevel THEN popParser(dd, l)
  ELSE CASE l.tag = T.TIME -> Assign(dd, h, "Time", l.value)
         [] OTHER -> unhandledTag(dd, l)

makeRepositoryParser(dd, h, l) ==
  IF l.level <= h.minLevel THEN popParser(dd, l)
  ELSE CASE l.tag = T.NAME -> Assign(dd, h, "Name", l.value)
         [] l.tag = T.NOTE -> NoteChild(dd, h, l)
         [] l.tag = T.RIN -> Assign(dd, h, "AutomatedRecordId", l.value)
         [] l.tag = T.REFN -> UserReferenceChild(dd, h, l)
         [] l.tag = T.CHAN -> PushSame(dd, h, l, <<"Change">>, "makeChangeParser")
         [] OTHER ->
              LET a == tryAddressTags(dd, AddressOf(h), l) IN
              IF a.matched THEN a.d ELSE UserDefinedChild(dd, h, l)

makeAssociationParser(dd, h, l) ==
  IF l.level <= h.minLevel THEN popParser(dd, l)
  ELSE CASE l.tag = T.RELA -> Assign(dd, h, "Relation", l.value)
         [] l.tag = T.SOUR -> CitationChild(dd, h, l)
         [] l.tag = T.NOTE -> NoteChild(dd, h, l)
         [] OTHER -> unhandledTag(dd, l)

\* makeUserDefinedTagParser returning only on level < minLevel
makeUserDefinedTagParserBelow(dd, h, l) ==
  IF l.level < h.minLevel THEN popParser(dd, l)
  ELSE UserDefinedChild(dd, h, l)
makeUserDefinedTagParser(dd, h, l) ==
  IF l.level <= h.minLevel THEN popParser(dd, l)
  ELSE UserDefinedChild(dd, h, l)

\* d.parsers[len(d.parsers)-1](level, tag, value, xref): the call of the parser on
\* top of the stack.  calls records the closures invoked for the current line.
Dispatch(dd, l) ==
  LET h == dd.parsers[Len(dd.parsers)]
      d1 == [dd EXCEPT !.calls = Append(@, h)]
  IN CASE h.p = "makeRootParser" -> makeRootParser(d1, h, l)
       [] h.p = "makeIndividualParser" -> makeIndividualParser(d1, h, l)
       [] h.p = "makeNameParser" -> makeNameParser(d1, h, l)
       [] h.p = "makeVariantNameParser" -> makeVariantNameParser(d1, h, l)
       [] h.p = "makeSourceParser" -> makeSourceParser(d1, h, l)
       [] h.p = "makeSourceDataParser" -> makeSourceDataParser(d1, h, l)
       [] h.p = "makeSourceEventParser" -> makeSourceEventParser(d1, h, l)
       [] h.p = "makeSourceRepositoryParser" -> makeSourceRepositoryParser(d1, h, l)
       [] h.p = "makeSourceCallNumberParser" -> makeSourceCallNumberParser(d1, h, l)
       [] h.p = "makeCitationParser" -> makeCitationParser(d1, h, l)
       [] h.p = "makeNoteParser" -> makeNoteParser(d1, h, l)
       [] h.p = "makeTextParser" -> makeTextParser(d1, h, l)
       [] h.p = "makePublicationFactsParser" -> makePublicationFactsParser(d1, h, l)
       [] h.p = "makeDataParser" -> makeDataParser(d1, h, l)
       [] h.p = "makeEventParser" -> makeEventParser(d1, h, l)
       [] h.p = "makeEventAdoptParser" -> makeEventAdoptParser(d1, h, l)
       [] h.p = "makePlaceParser" -> makePlaceParser(d1, h, l)
       [] h.p = "makePlaceMapParser" -> makePlaceMapParser(d1, h, l)
       [] h.p = "makeVariantPlaceNameRecordParser" ->
            makeVariantPlaceNameRecordParser(d1, h, l)
       [] h.p = "makeFamilyLinkParser" -> makeFamilyLinkParser(d1, h, l)
       [] h.p = "makeFamilyParser" -> makeFamilyParser(d1, h, l)
       [] h.p = "makeMediaParser" -> makeMediaParser(d1, h, l)
       [] h.p = "makeMediaFileParser" -> makeMediaFileParser(d1, h, l)
       [] h.p = "makeMediaFileFormatParser" -> makeMediaFileFormatParser(d1, h, l)
       [] h.p = "makeUserReferenceParser" -> makeUserReferenceParser(d1, h, l)
       [] h.p = "makeAddressDetailParser" -> makeAddressDetailParser(d1, h, l)
       [] h.p = "makeHeaderParser" -> makeHeaderParser(d1, h, l)
       [] h.p = "makeHeaderTimeParser" -> makeHeaderTimeParser(d1, h, l)
       [] h.p = "makeHeaderVersionParser" -> makeHeaderVersionParser(d1, h, l)
       [] h.p = "makeHeaderCharacterSetVersionParser" ->
            makeHeaderCharacterSetVersionParser(d1, h, l)
       [] h.p = "makeSystemParser" -> makeSystemParser(d1, h, l)
       [] h.p = "makeCorpParser" -> makeCorpParser(d1, h, l)
       [] h.p = "makeDataSourceParser" -> makeDataSourceParser(d1, h, l)
       [] h.p = "makeChangeParser" -> makeChangeParser(d1, h, l)
       [] h.p = "makeChangeTimeParser" -> makeChangeTimeParser(d1, h, l)
       [] h.p = "makeRepositoryParser" -> makeRepositoryParser(d1, h, l)
       [] h.p = "makeAssociationParser" -> makeAssociationParser(d1, h, l)
       [] h.p = "makeUserDefinedTagParser" -> makeUserDefinedTagParser(d1, h, l)

\* ------------------------------------------------------------------ inputs
\* A line as the tokenizer yields it
Line(level, tag, value, xref) ==
  [level |-> level, tag |-> tag, value |-> value, xref |-> xref]
\* The same tag, value and xref on every level
AnyLevel(tag, value, xref) ==
  {Line(n, tag, value, xref) : n \in 0..MaxLevel}
\* The vocabularies input files are drawn from: each a small set of lines
Vocabularies ==
  {"nest", "name", "text", "xref", "link"}
Vocabulary(v) ==
  CASE v = "nest" ->
         AnyLevel(T.INDI, <<>>, <<"X">>) \cup AnyLevel(T._U, <<"a">>, <<>>)
    [] v = "name" ->
         {Line(0, T.INDI, <<>>, <<"X">>), Line(1, T.NAME, <<"a">>, <<>>),
          Line(1, T.SEX, <<"M">>, <<>>), Line(2, T.GIVN, <<"b">>, <<>>),
          Line(2, T._U, <<"c">>, <<>>), Line(3, T._V, <<>>, <<"Y">>)}
    [] v = "text" ->
         {Line(0, T.INDI, <<>>, <<"X">>), Line(0, T.HEAD, <<>>, <<>>),
          Line(1, T.NOTE, <<"a">>, <<>>), Line(2, T.CONT, <<"b">>, <<>>),
          Line(2, T.CONC, <<"c", " ">>, <<>>), Line(2, T.CONT, <<>>, <<>>)}
    [] v = "round" ->
         {Line(0, T.HEAD, <<>>, <<>>), Line(0, T.INDI, <<>>, <<"X">>),
          Line(1, T.NAME, <<"a">>, <<>>), Line(2, T.GIVN, <<"b">>, <<>>),
          Line(1, T.SEX, <<"M">>, <<>>), Line(1, T.NOTE, <<"n">>, <<>>),
          Line(2, T.CONT, <<"c">>, <<>>), Line(0, T.TRLR, <<>>, <<>>)}
    [] v = "xref" ->
         {Line(0, T.INDI, <<>>, <<"X">>), Line(0, T.FAM, <<>>, <<"X">>),
          Line(0, T.FAM, <<>>, <<"F">>), Line(1, T.HUSB, <<"@", "X", "@">>, <<>>),
          Line(1, T.FAMC, <<"@", "F", "@">>, <<>>),
          Line(0, T.OBJE, <<>>, <<"M">>), Line(1, T.OBJE, <<"@", "M", "@">>, <<>>)}
    [] v = "link" ->
         {Line(0, T.INDI, <<>>, <<"X">>), Line(1, T.SEX, <<"M">>, <<>>),
          Line(1, T.FAMC, <<"@", "F", "@">>, <<>>),
          Line(1, T.FAMS, <<"@", "F", "@">>, <<>>),
          Line(0, T.FAM, <<>>, <<"F">>), Line(1, T.NCHI, <<"1">>, <<>>),
          Line(1, T.HUSB, <<"@", "X", "@">>, <<>>),
          Line(1, T.CHIL, <<"@", "X", "@">>, <<>>)}
    [] v = "adop" ->
         {Line(0, T.INDI, <<>>, <<"X">>), Line(1, T.ADOP, <<>>, <<>>),
          Line(1, T.BIRT, <<>>, <<>>), Line(2, T.FAMC, <<"@", "F", "@">>, <<>>),
          Line(2, T.ADOP, <<"a">>, <<>>), Line(3, T.ADOP, <<"b">>, <<>>)}
    [] v = "birth" ->
         {Line(0, T.INDI, <<>>, <<"X">>), Line(1, T.BIRT, <<>>, <<>>),
          Line(1, T.CHR, <<>>, <<>>), Line(2, T.FAMC, <<"@", "F", "@">>, <<>>),
          Line(3, T.PEDI, <<"p">>, <<>>), Line(3, T.NOTE, <<"n">>, <<>>),
          Line(1, T.FAMC, <<"@", "F", "@">>, <<>>), Line(0, T.FAM, <<>>, <<"F">>)}
    [] v = "publ" ->
         {Line(0, T.SOUR, <<>>, <<"S">>), Line(1, T.PUBL, <<>>, <<>>),
          Line(1, T.PUBL, <<"p">>, <<>>), Line(2, T.DATE, <<"d">>, <<>>),
          Line(2, T.PLAC, <<"q">>, <<>>), Line(2, T.CONT, <<"c">>, <<>>),
          Line(2, T.CONC, <<"e">>, <<>>)}
    [] v = "alia" ->
         {Line(0, T.INDI, <<>>, <<"X">>), Line(1, T.NAME, <<"a">>, <<>>),
          Line(1, T.ALIA, <<"b">>, <<>>), Line(1, T.ALIA, <<"@", "Y", "@">>, <<>>),
          Line(1, T.ALIA, <<>>, <<>>), Line(1, T.ALIA, <<"c">>, <<"Z">>)}
    [] v = "corp" ->
         {Line(0, T.HEAD, <<>>, <<>>), Line(1, T.SOUR, <<"s">>, <<>>),
          Line(2, T.CORP, <<"c">>, <<>>), Line(3, T.ADDR, <<"a">>, <<>>),
          Line(4, T.CONT, <<"b">>, <<>>), Line(4, T.CONC, <<"e">>, <<>>),
          Line(4, T.CITY, <<"y">>, <<>>), Line(3, T.PHON, <<"p">>, <<>>),
          Line(3, T.WWW, <<"w">>, <<>>), Line(3, T.URL, <<"u">>, <<>>)}
    [] v = "repo" ->
         {Line(0, T.REPO, <<>>, <<"R">>), Line(1, T.ADDR, <<"a">>, <<>>),
          Line(2, T.CONT, <<"b">>, <<>>), Line(2, T.CONC, <<"e">>, <<>>),
          Line(2, T.ADR1, <<"1">>, <<>>), Line(2, T.ADR2, <<"2">>, <<>>),
          Line(2, T.ADR3, <<"3">>, <<>>), Line(2, T.CITY, <<"y">>, <<>>),
          Line(2, T.STAE, <<"s">>, <<>>), Line(2, T.POST, <<"o">>, <<>>),
          Line(2, T.CTRY, <<"t">>, <<>>), Line(1, T.PHON, <<"p">>, <<>>),
          Line(1, T.EMAIL, <<"m">>, <<>>), Line(1, T.FAX, <<"f">>, <<>>),
          Line(1, T.WWW, <<"w">>, <<>>), Line(1, T.URL, <<"u">>, <<>>)}
    [] v = "resi" ->
         {Line(0, T.INDI, <<>>, <<"X">>), Line(1, T.RESI, <<>>, <<>>),
          Line(2, T.ADDR, <<"a">>, <<>>), Line(3, T.CONT, <<"b">>, <<>>),
          Line(3, T.CONC, <<"e">>, <<>>), Line(3, T.CITY, <<"y">>, <<>>),
          Line(2, T.PHON, <<"p">>, <<>>), Line(2, T.EMAIL, <<"m">>, <<>>),
          Line(2, T.URL, <<"u">>, <<>>)}
    [] v = "udef" ->
         {Line(0, T.HEAD, <<>>, <<>>), Line(1, T.SOUR, <<"s">>, <<>>),
          Line(2, T._U, <<"u">>, <<>>), Line(0, T.INDI, <<>>, <<"X">>),
          Line(1, T._U, <<"a">>, <<>>), Line(2, T._V, <<"b">>, <<>>),
          Line(0, T._U, <<"a">>, <<>>), Line(0, T._V, <<>>, <<"Y">>),
          Line(0, T.TRLR, <<>>, <<>>)}
    [] v = "ptr" ->
         {Line(0, T.HEAD, <<>>, <<>>), Line(1, T.SUBM, <<>>, <<>>),
          Line(1, T.SUBN, <<>>, <<>>), Line(0, T.INDI, <<>>, <<"X">>),
          Line(1, T.FAMC, <<>>, <<>>), Line(1, T.FAMS, <<"@", "F", "@">>, <<>>),
          Line(1, T.BIRT, <<>>, <<>>), Line(2, T.FAMC, <<>>, <<>>),
          Line(0, T.FAM, <<>>, <<"F">>), Line(1, T.HUSB, <<>>, <<>>),
          Line(1, T.CHIL, <<"@", "X", "@">>, <<>>)}
    [] v = "order" ->
         {Line(0, T.HEAD, <<>>, <<>>), Line(0, T.INDI, <<>>, <<"X">>),
          Line(0, T.INDI, <<>>, <<"Y">>), Line(0, T.FAM, <<>>, <<"F">>),
          Line(0, T.OBJE, <<>>, <<"M">>), Line(0, T.REPO, <<>>, <<"R">>),
          Line(0, T.SOUR, <<>>, <<"S">>), Line(0, T.SUBM, <<>>, <<"U">>),
          Line(0, T._U, <<"a">>, <<>>), Line(1, T.SEX, <<"M">>, <<>>)}
    [] v = "sub" ->
         {Line(0, T.HEAD, <<>>, <<>>), Line(1, T.SOUR, <<"s">>, <<>>),
          Line(2, T._U, <<"u">>, <<>>), Line(0, T.INDI, <<>>, <<"X">>),
          Line(1, T.NOTE, <<"n">>, <<>>), Line(1, T.REFN, <<"r">>, <<>>),
          Line(2, T.TYPE, <<"t">>, <<>>), Line(1, T.BIRT, <<>>, <<>>),
          Line(2, T.PLAC, <<"p">>, <<>>), Line(3, T.FONE, <<"f">>, <<>>),
          Line(4, T.TYPE, <<"t">>, <<>>)}

\* ------------------------------------------------------------------ scanner
Digits ==
  <<"0", "1", "2", "3", "4", "5", "6", "7", "8", "9">>
isSpace(c) ==
  c \in {" ", "\t", "\r", "\n"}
isNumeric(c) ==
  \E i \in DOMAIN Digits : Digits[i] = c
\* isAlphaNumeric when it takes the delimiter of an xref for a letter
isAlphaNumericOrAt(c) ==
  \/ isNumeric(c)
  \/ c \in {"a", "b", "c", "d", "e", "f", "g", "h", "i", "j", "k", "l", "m",
            "n", "o", "p", "q", "r", "s", "t", "u", "v", "w", "x", "y", "z"}
  \/ c \in {"A", "B", "C", "D", "E", "F", "G", "H", "I", "J", "K", "L", "M",
            "N", "O", "P", "Q", "R", "S", "T", "U", "V", "W", "X", "Y", "Z"}
  \/ c \in {"_", "@"}
isAlphaNumeric(c) ==
  \/ isNumeric(c)
  \/ c \in {"a", "b", "c", "d", "e", "f", "g", "h", "i", "j", "k", "l", "m",
            "n", "o", "p", "q", "r", "s", "t", "u", "v", "w", "x", "y", "z"}
  \/ c \in {"A", "B", "C", "D", "E", "F", "G", "H", "I", "J", "K", "L", "M",
            "N", "O", "P", "Q", "R", "S", "T", "U", "V", "W", "X", "Y", "Z"}
  \/ c = "_"

\* The value of a digit, and of a string of digits read in base 10
DigitValue(c) ==
  (CHOOSE i \in DOMAIN Digits : Digits[i] = c) - 1
RECURSIVE Decimal(_)
Decimal(ds) ==
  IF ds = <<>> THEN 0
  ELSE 10 * Decimal(SubSeq(ds, 1, Len(ds) - 1)) + DigitValue(ds[Len(ds)])
\* strconv.ParseInt(string(s.buf), 10, 64) of a string of digits: perr is the
\* range error, for a value above 1<<63 - 1
ParseInt(ds) ==
  LET MaxInt64 == <<"9", "2", "2", "3", "3", "7", "2", "0", "3", "6",
                    "8", "5", "4", "7", "7", "5", "8", "0", "7">>
      nz == {i \in DOMAIN ds : ds[i] # "0"}
      z == IF nz = {} THEN <<"0">>
           ELSE SubSeq(ds, CHOOSE i \in nz : \A j \in nz : i <= j, Len(ds))
      over == \/ Len(z) > Len(MaxInt64)
              \/ /\ Len(z) = Len(MaxInt64)
                 /\ \E i \in DOMAIN z :
                      /\ DigitValue(z[i]) > DigitValue(MaxInt64[i])
                      /\ \A j \in 1..(i - 1) : z[j] = MaxInt64[j]
  IN IF over THEN [v |-> 0, perr |-> TRUE] ELSE [v |-> Decimal(z), perr |-> FALSE]

NoErr ==
  [Err |-> "nil", LineNumber |-> 0, Offset |-> 0]
\* A string is the sequence of its bytes.  An ASCII byte is the character it
\* encodes; "C3" "A9" are the two bytes of U+00E9 in UTF-8 and "EF" "BF" "BD" the
\* three of U+FFFD, the only bytes above 7F a string of the model holds.
\* s.r.ReadRune() at byte pos + 1 of r: the rune c and its size n in bytes; a
\* byte that does not open a whole encoding is read as U+FFFD of size 1
DecodeRune(r, pos) ==
  LET b == r[pos + 1] IN
  IF b = "C3" /\ pos + 2 <= Len(r) /\ r[pos + 2] = "A9"
    THEN [c |-> "U+00E9", n |-> 2]
  ELSE IF b = "EF" /\ pos + 3 <= Len(r) /\ r[pos + 2] = "BF" /\ r[pos + 3] = "BD"
    THEN [c |-> "U+FFFD", n |-> 3]
  ELSE IF b \in {"C3", "A9", "EF", "BF", "BD"}
    THEN [c |-> "U+FFFD", n |-> 1]
  ELSE [c |-> b, n |-> 1]
\* string(s.buf): the UTF-8 encoding of the runes of buf
RECURSIVE string(_)
string(buf) ==
  CASE Len(buf) = 0 -> <<>>
    [] Len(buf) = 1 -> (CASE buf[1] = "U+00E9" -> <<"C3", "A9">>
                          [] buf[1] = "U+FFFD" -> <<"EF", "BF", "BD">>
                          [] OTHER -> buf)
    [] OTHER -> LET half == Len(buf) \div 2 IN
                string(SubSeq(buf, 1, half)) \o string(SubSeq(buf, half + 1, Len(buf)))
\* NewScanner(r) on a stream that holds the runes r; pos runes have been read,
\* and ret is where the last turn of the loop of Next ended
\* r is the stream: its bytes and, in rerr, the error its ReadRune returns once
\* they are read, io.EOF unless the stream fails
NewScanner(r) ==
  [r |-> r, rerr |-> "io.EOF", pos |-> 0, err |-> NoErr, state |-> "stateBegin", line |-> 0,
   offset |-> 0, level |-> 0, buf |-> <<>>, tag |-> <<>>, value |-> <<>>,
   xref |-> <<>>, ret |-> "none"]
\* Where a turn of the loop of Next ends: at continue (or the end of the
\* switch), at return true or at return false
Turn(s, r) ==
  [s EXCEPT !.ret = r]
\* s.err = &ScanErr{LineNumber: s.line, Offset: s.offset, Err: msg}
ScanErr(s, msg) ==
  [s EXCEPT !.err = [Err |-> msg, LineNumber |-> s.line, Offset |-> s.offset]]
\* s.state = stateError; s.err = &ScanErr{...}; return false
Fail(s, msg) ==
  Turn(ScanErr([s EXCEPT !.state = "stateError"], msg), "false")
\* swallowCr when it leaves the line feed after a carriage return unread
swallowCrUnread(s, c) ==
  s
swallowCr(s, c) ==
  IF c = "\r" /\ s.pos < Len(s.r) /\ s.r[s.pos + 1] = "\n"
    THEN [s EXCEPT !.pos = @ + 1, !.offset = @ + 1]
    ELSE s
\* The end of the input without the test of s.state
readEOFSilent(s) ==
  Turn(s, "false")
\* s.r.ReadRune() returns io.EOF: the if err != nil block of Next
readEOF(s) ==
  LET t == IF s.rerr # "io.EOF"
             THEN ScanErr([s EXCEPT !.state = "stateError"], "read: " \o s.rerr)
             ELSE s
  IN IF t.state \notin {"stateEnd", "stateBegin"}
       THEN Fail(t, "io.ErrUnexpectedEOF")
       ELSE Turn(t, "false")
\* One turn of the for loop of Next
ReadRune(s) ==
  IF s.pos >= Len(s.r) THEN readEOF(s)
  ELSE
    LET rune == DecodeRune(s.r, s.pos)
        c == rune.c
        t == [s EXCEPT !.pos = @ + rune.n, !.offset = @ + rune.n]
    IN CASE t.state = "stateBegin" ->
              IF isNumeric(c)
                THEN Turn([t EXCEPT !.buf = Append(@, c), !.state = "stateLevel"], "continue")
              ELSE IF isSpace(c) THEN Turn(t, "continue")
              ELSE Fail(t, "found non-whitespace before level")
         [] t.state = "stateLevel" ->
              IF isNumeric(c) THEN Turn([t EXCEPT !.buf = Append(@, c)], "continue")
              ELSE IF c = " "
                THEN IF ParseInt(t.buf).perr
                       THEN Turn(ScanErr(t, "parse level"), "false")
                       ELSE Turn([t EXCEPT !.level = ParseInt(t.buf).v, !.buf = <<>>,
                                           !.state = "stateSeekTagOrXref"], "continue")
              ELSE Fail(t, "level contained non-numerics")
         [] t.state = "stateSeekTag" ->
              IF isAlphaNumeric(c)
                THEN Turn([t EXCEPT !.buf = Append(@, c), !.state = "stateTag"], "continue")
              ELSE IF c = " " THEN Turn(t, "continue")
              ELSE Fail(t, "tag contained non-alphanumeric")
         [] t.state = "stateSeekTagOrXref" ->
              IF isAlphaNumeric(c)
                THEN Turn([t EXCEPT !.buf = Append(@, c), !.state = "stateTag"], "continue")
              ELSE IF c = "@" THEN Turn([t EXCEPT !.state = "stateXref"], "continue")
              ELSE IF c = " " THEN Turn(t, "continue")
              ELSE Fail(t, "tag or xref contained non-alphanumeric")
         [] t.state = "stateTag" ->
              IF isAlphaNumeric(c) THEN Turn([t EXCEPT !.buf = Append(@, c)], "continue")
              ELSE IF c \in {"\n", "\r"}
                THEN Turn([swallowCr(t, c) EXCEPT !.tag = string(t.buf), !.buf = <<>>,
                                                  !.state = "stateEnd"], "true")
              ELSE IF c = " "
                THEN Turn([t EXCEPT !.tag = string(t.buf), !.buf = <<>>,
                                    !.state = "stateSeekValue"], "continue")
              ELSE Fail(t, "tag contained non-alphanumeric")
         [] t.state = "stateXref" ->
              IF isAlphaNumeric(c) THEN Turn([t EXCEPT !.buf = Append(@, c)], "continue")
              ELSE IF c = "@" THEN Turn(t, "continue")
              ELSE IF c = " "
                THEN Turn([t EXCEPT !.xref = string(t.buf), !.buf = <<>>,
                                    !.state = "stateSeekTag"], "continue")
              ELSE Fail(t, "xref contained non-alphanumeric")
         [] t.state = "stateSeekValue" ->
              IF c \in {"\n", "\r"}
                THEN Turn([swallowCr(t, c) EXCEPT !.state = "stateEnd"], "true")
              ELSE IF c = " " THEN Turn(t, "continue")
              ELSE Turn([t EXCEPT !.buf = Append(@, c), !.state = "stateValue"], "continue")
         [] t.state = "stateValue" ->
              IF c \in {"\n", "\r"}
                THEN LET u == swallowCr(t, c) IN
                     IF /\ u.tag = T.NOTE
                        /\ u.pos < Len(u.r)
                        /\ ~isNumeric(u.r[u.pos + 1])
                       THEN Turn([u EXCEPT !.buf = Append(@, "\n")], "continue")
                       ELSE Turn([u EXCEPT !.value = string(u.buf), !.buf = <<>>,
                                           !.state = "stateEnd"], "true")
              ELSE Turn([t EXCEPT !.buf = Append(@, c)], "continue")
         [] OTHER -> Turn(t, "continue")
\* Next up to its for loop without s.state = stateBegin
ScannerNextSameState(s) ==
  [s EXCEPT !.level = 0, !.buf = <<>>, !.xref = <<>>,
            !.tag = <<>>, !.value = <<>>, !.offset = 0, !.line = @ + 1,
            !.ret = "continue"]
\* Scanner.Next up to its for loop
ScannerNext(s) ==
  [s EXCEPT !.state = "stateBegin", !.level = 0, !.buf = <<>>, !.xref = <<>>,
            !.tag = <<>>, !.value = <<>>, !.offset = 0, !.line = @ + 1,
            !.ret = "continue"]

\* ------------------------------------------------------------------ encoder
\* The encoder's functions are given as the writes they make, in order: each
\* gives the sequence of calls of tag, tagWithID and tagWithPointer, and of
\* assignments to e.err, that its body makes for its arguments.  Emit is the
\* body of those four, with the test of e.err that opens every function.
\* hp is the heap the pointers of the graph refer to.
NewEncoder ==
  [w |-> <<>>, err |-> "nil"]
\* fmt.Sprintf("%d", n) for n >= 0
RECURSIVE Sprintd(_)
Sprintd(n) ==
  IF n < 10 THEN <<Digits[n + 1]>>
  ELSE Sprintd(n \div 10) \o <<Digits[(n % 10) + 1]>>
Write(op, level, tg, arg, msg) ==
  <<[op |-> op, level |-> level, tag |-> tg, arg |-> arg, msg |-> msg]>>
tagWithID(level, tg, id) ==
  Write("tagWithID", level, tg, id, "nil")
tag(level, tg, value) ==
  Write("tag", level, tg, value, "nil")
tagWithPointer(level, tg, xref) ==
  Write("tagWithPointer", level, tg, xref, "nil")
\* e.err = fmt.Errorf(msg); return
Errorf(msg) ==
  Write("err", 0, <<>>, <<>>, msg)
\* The four without the test of e.err that opens them
EmitUnlatched(e, c) ==
  CASE c.op = "tagWithID" ->
         IF c.arg = <<>> THEN [e EXCEPT !.err = "missing id"]
         ELSE [e EXCEPT !.w = @ \o Sprintd(c.level) \o <<" ", "@">> \o c.arg
                                \o <<"@", " ">> \o c.tag \o <<"\n">>]
    [] c.op = "tag" ->
         [e EXCEPT !.w = @ \o Sprintd(c.level) \o <<" ">> \o c.tag
                           \o (IF c.arg # <<>> THEN <<" ">> \o c.arg ELSE <<>>)
                           \o <<"\n">>]
    [] c.op = "tagWithPointer" ->
         [e EXCEPT !.w = @ \o Sprintd(c.level) \o <<" ">> \o c.tag \o <<" ", "@">>
                           \o c.arg \o <<"@", "\n">>]
    [] c.op = "err" -> [e EXCEPT !.err = c.msg]
\* tag without its test of value != ""
EmitSeparator(e, c) ==
  IF e.err # "nil" THEN e
  ELSE CASE c.op = "tagWithID" ->
              IF c.arg = <<>> THEN [e EXCEPT !.err = "missing id"]
              ELSE [e EXCEPT !.w = @ \o Sprintd(c.level) \o <<" ", "@">> \o c.arg
                                     \o <<"@", " ">> \o c.tag \o <<"\n">>]
         [] c.op = "tag" ->
              [e EXCEPT !.w = @ \o Sprintd(c.level) \o <<" ">> \o c.tag
                                \o <<" ">> \o c.arg \o <<"\n">>]
         [] c.op = "tagWithPointer" ->
              [e EXCEPT !.w = @ \o Sprintd(c.level) \o <<" ">> \o c.tag \o <<" ", "@">>
                                \o c.arg \o <<"@", "\n">>]
         [] c.op = "err" -> [e EXCEPT !.err = c.msg]
Emit(e, c) ==
  IF e.err # "nil" THEN e
  ELSE CASE c.op = "tagWithID" ->
              IF c.arg = <<>> THEN [e EXCEPT !.err = "missing id"]
              ELSE [e EXCEPT !.w = @ \o Sprintd(c.level) \o <<" ", "@">> \o c.arg
                                     \o <<"@", " ">> \o c.tag \o <<"\n">>]
         [] c.op = "tag" ->
              [e EXCEPT !.w = @ \o Sprintd(c.level) \o <<" ">> \o c.tag
                                \o (IF c.arg # <<>> THEN <<" ">> \o c.arg ELSE <<>>)
                                \o <<"\n">>]
         [] c.op = "tagWithPointer" ->
              [e EXCEPT !.w = @ \o Sprintd(c.level) \o <<" ">> \o c.tag \o <<" ", "@">>
                                \o c.arg \o <<"@", "\n">>]
         [] c.op = "err" -> [e EXCEPT !.err = c.msg]
RECURSIVE EmitAll(_, _)
EmitAll(e, cs) ==
  IF Len(cs) = 0 THEN e ELSE EmitAll(Emit(e, Head(cs)), Tail(cs))
\* The writes of the turns of a for ... range loop, turn after turn
RECURSIVE Each(_)
Each(ws) ==
  IF Len(ws) = 0 THEN <<>> ELSE Head(ws) \o Each(Tail(ws))

maybeTag(level, tg, value) ==
  IF value = <<>> THEN <<>> ELSE tag(level, tg, value)
tagWithOptionalPointer(level, tg, xref) ==
  IF xref # <<>> THEN tagWithPointer(level, tg, xref) ELSE tag(level, tg, <<>>)

\* strings.Split(value, sep) for a separator of one byte
RECURSIVE Split(_, _)
Split(value, sep) ==
  IF \A i \in DOMAIN value : value[i] # sep THEN <<value>>
  ELSE LET i == CHOOSE j \in DOMAIN value :
                  value[j] = sep /\ \A k \in 1..(j - 1) : value[k] # sep
       IN <<SubSeq(value, 1, i - 1)>> \o Split(SubSeq(value, i + 1, Len(value)), sep)
\* The for loop of textOneLine
RECURSIVE Conc(_, _)
Conc(level, value) ==
  IF Len(value) > WrapLen
    THEN LET rest == SubSeq(value, WrapLen + 1, Len(value)) IN
         IF Len(rest) <= WrapLen THEN tag(level + 1, T.CONC, rest)
         ELSE tag(level + 1, T.CONC, SubSeq(rest, 1, WrapLen)) \o Conc(level, rest)
    ELSE <<>>
textOneLine(level, tg, value) ==
  IF Len(value) <= WrapLen THEN tag(level, tg, value)
  ELSE tag(level, tg, SubSeq(value, 1, WrapLen)) \o Conc(level, value)
tagWithText(level, tg, value) ==
  LET conts == Split(value, "\n") IN
  textOneLine(level, tg, conts[1])
    \o Each([i \in 1..(Len(conts) - 1) |-> textOneLine(level + 1, T.CONT, conts[i + 1])])
maybeTagWithText(level, tg, value) ==
  IF value = <<>> THEN <<>> ELSE tagWithText(level, tg, value)

RECURSIVE userDefinedList(_, _, _)
userDefined(hp, level, r) ==
  (IF r.Xref # <<>> THEN tagWithPointer(level, r.Tag, r.Xref)
   ELSE tag(level, r.Tag, r.Value))
    \o userDefinedList(hp, level + 1, r.UserDefined)
userDefinedList(hp, level, uds) ==
  Each([i \in DOMAIN uds |-> userDefined(hp, level, hp[uds[i]])])

addressDetail(hp, level, r) ==
  IF r = 0 THEN <<>>
  ELSE tagWithText(level, T.ADDR, hp[r].Full)
         \o maybeTagWithText(level + 1, T.ADR1, hp[r].Line1)
         \o maybeTagWithText(level + 1, T.ADR2, hp[r].Line2)
         \o maybeTagWithText(level + 1, T.ADR3, hp[r].Line3)
         \o maybeTagWithText(level + 1, T.CITY, hp[r].City)
         \o maybeTagWithText(level + 1, T.STAE, hp[r].State)
         \o maybeTagWithText(level + 1, T.POST, hp[r].PostalCode)
         \o maybeTagWithText(level + 1, T.CTRY, hp[r].Country)
addressDetailList(hp, level, rs) ==
  Each([i \in DOMAIN rs |-> addressDetail(hp, level, rs[i])])
\* r is the AddressRecord itself; a nil *AddressRecord is the caller's case
address(hp, level, r) ==
  addressDetailList(hp, level, r.Address)
    \o Each([i \in DOMAIN r.Phone |-> maybeTagWithText(level, T.PHON, r.Phone[i])])
    \o Each([i \in DOMAIN r.Email |-> maybeTagWithText(level, T.EMAIL, r.Email[i])])
    \o Each([i \in DOMAIN r.Fax |-> maybeTagWithText(level, T.FAX, r.Fax[i])])
    \o Each([i \in DOMAIN r.WWW |-> maybeTagWithText(level, T.WWW, r.WWW[i])])

sourceSystem(hp, level, s) ==
  tag(level + 1, T.SOUR, s.Xref)
    \o maybeTag(level + 2, T.VERS, s.Version)
    \o maybeTag(level + 2, T.NAME, s.ProductName)
    \o maybeTag(level + 2, T.CORP, s.BusinessName)
    \o address(hp, level + 3, s.Address)
    \o maybeTag(level + 2, T.DATA, s.SourceName)
    \o maybeTag(level + 3, T.DATE, s.SourceDate)
    \o maybeTag(level + 3, T.COPR, s.SourceCopyright)
    \o userDefinedList(hp, 1, s.UserDefined)
header(hp, h) ==
  IF h = 0 THEN <<>>
  ELSE tag(0, T.HEAD, <<>>)
         \o maybeTag(1, T.CHAR, hp[h].CharacterSet)
         \o maybeTag(2, T.VERS, hp[h].CharacterSetVersion)
         \o sourceSystem(hp, 0, hp[h].SourceSystem)
         \o maybeTag(1, T.DEST, hp[h].Destination)
         \o maybeTag(1, T.DATE, hp[h].Date)
         \o maybeTag(2, T.TIME, hp[h].Time)
         \o (IF hp[h].Submitter # 0
               THEN tagWithPointer(1, T.SUBM, hp[hp[h].Submitter].Xref) ELSE <<>>)
         \o (IF hp[h].Submission # 0
               THEN tagWithPointer(1, T.SUBN, hp[hp[h].Submission].Xref) ELSE <<>>)
         \o maybeTag(1, T.FILE, hp[h].Filename)
         \o maybeTag(1, T.COPR, hp[h].Copyright)
         \o (IF hp[h].Version # <<>> \/ hp[h].Form # <<>>
               THEN tag(1, T.GEDC, <<>>)
                      \o (IF hp[h].Version # <<>> THEN tag(2, T.VERS, hp[h].Version) ELSE <<>>)
                      \o (IF hp[h].Form # <<>> THEN tag(2, T.FORM, hp[h].Form) ELSE <<>>)
               ELSE <<>>)
         \o maybeTag(1, T.LANG, hp[h].Language)
         \o maybeTagWithText(1, T.NOTE, hp[h].Note)
         \o userDefinedList(hp, 1, hp[h].UserDefined)

note(level, r) ==
  IF r = 0 THEN <<>> ELSE tagWithText(level, T.NOTE, <<>>)
noteList(level, rs) ==
  Each([i \in DOMAIN rs |-> note(level + 1, rs[i])])
file(hp, level, r) ==
  IF r = 0 THEN <<>>
  ELSE maybeTagWithText(level, T.FILE, hp[r].Name)
         \o maybeTagWithText(level + 1, T.FORM, hp[r].Format)
         \o maybeTagWithText(level + 2, T.TYPE, hp[r].FormatType)
         \o maybeTagWithText(level + 1, T.TITL, hp[r].Title)
         \o userDefinedList(hp, level + 1, hp[r].UserDefined)
mediaRef(hp, level, r) ==
  IF r = 0 THEN <<>>
  ELSE IF hp[r].Xref # <<>> THEN tagWithPointer(level, T.OBJE, hp[r].Xref)
  ELSE tag(level, T.OBJE, <<>>)
         \o Each([i \in DOMAIN hp[r].File |-> file(hp, level + 1, hp[r].File[i])])
         \o maybeTagWithText(level + 1, T.TITL, hp[r].Title)
mediaRefList(hp, level, rs) ==
  Each([i \in DOMAIN rs |-> mediaRef(hp, level, rs[i])])
\* r is the DataRecord itself
data(hp, level, r) ==
  tag(level, T.DATA, <<>>)
    \o maybeTag(level + 1, T.DATE, r.Date)
    \o Each([i \in DOMAIN r.Text |-> maybeTagWithText(level + 1, T.TEXT, r.Text[i])])
    \o userDefinedList(hp, level + 1, r.UserDefined)
citation(hp, level, r) ==
  IF r = 0 THEN <<>>
  ELSE IF hp[r].Source = 0 THEN Errorf("source missing")
  ELSE (IF hp[hp[r].Source].Xref = <<>> THEN tag(level, T.SOUR, <<>>)
        ELSE tagWithPointer(level, T.SOUR, hp[hp[r].Source].Xref))
         \o maybeTagWithText(level + 1, T.PAGE, hp[r].Page)
         \o maybeTagWithText(level + 1, T.QUAY, hp[r].Quay)
         \o (IF \/ hp[r].Data.Date # <<>>
                \/ Len(hp[r].Data.Text) # 0
                \/ Len(hp[r].Data.UserDefined) # 0
               THEN data(hp, level + 1, hp[r].Data) ELSE <<>>)
         \o noteList(level + 1, hp[r].Note)
         \o mediaRefList(hp, level + 1, hp[r].Media)
         \o userDefinedList(hp, level + 1, hp[r].UserDefined)
citationList(hp, level, rs) ==
  Each([i \in DOMAIN rs |-> citation(hp, level, rs[i])])
\* r is the ChangeRecord itself
change(level, r) ==
  tagWithText(level, T.CHAN, <<>>)
    \o maybeTagWithText(level + 1, T.DATE, r.Date)
    \o maybeTagWithText(level + 2, T.TIME, r.Time)
    \o noteList(level + 1, r.Note)
userReference(hp, level, r) ==
  IF r = 0 THEN <<>>
  ELSE maybeTagWithText(level, T.REFN, hp[r].Number)
         \o maybeTagWithText(level + 1, T.TYPE, hp[r].Type)
userReferenceList(hp, level, rs) ==
  Each([i \in DOMAIN rs |-> userReference(hp, level + 1, rs[i])])
\* r is the PlaceRecord itself
place(hp, level, r) ==
  IF /\ r.Name = <<>> /\ Len(r.Phonetic) = 0 /\ Len(r.Romanized) = 0
     /\ r.Latitude = <<>> /\ r.Longitude = <<>>
     /\ Len(r.Note) = 0 /\ Len(r.Citation) = 0
    THEN <<>>
  ELSE tag(level, T.PLAC, r.Name)
         \o Each([i \in DOMAIN r.Phonetic |->
                    tag(level + 1, T.FONE, hp[r.Phonetic[i]].Name)
                      \o maybeTag(level + 1, T.TYPE, hp[r.Phonetic[i]].Type)])
         \o Each([i \in DOMAIN r.Romanized |->
                    tag(level + 1, T.ROMN, hp[r.Romanized[i]].Name)
                      \o maybeTag(level + 2, T.TYPE, hp[r.Romanized[i]].Type)])
         \o (IF r.Latitude # <<>> \/ r.Longitude # <<>>
               THEN tag(level + 1, T.MAP, <<>>)
                      \o maybeTag(level + 2, T.LATI, r.Latitude)
                      \o maybeTag(level + 2, T.LONG, r.Longitude)
               ELSE <<>>)
         \o noteList(level + 1, r.Note)
         \o citationList(hp, level + 1, r.Citation)
name(hp, level, r) ==
  IF r = 0 THEN <<>>
  ELSE maybeTagWithText(level, T.NAME, hp[r].Name)
         \o maybeTagWithText(level + 1, T.TYPE, hp[r].Type)
         \o maybeTagWithText(level + 1, T.NPFX, hp[r].NamePiecePrefix)
         \o maybeTagWithText(level + 1, T.GIVN, hp[r].NamePieceGiven)
         \o maybeTagWithText(level + 1, T.NICK, hp[r].NamePieceNick)
         \o maybeTagWithText(level + 1, T.SPFX, hp[r].NamePieceSurnamePrefix)
         \o maybeTagWithText(level + 1, T.SURN, hp[r].NamePieceSurname)
         \o maybeTagWithText(level + 1, T.NSFX, hp[r].NamePieceSuffix)
         \o (IF Len(hp[r].Phonetic) > 0 THEN Errorf("not implemented: FONE")
             ELSE IF Len(hp[r].Romanized) > 0 THEN Errorf("not implemented: ROMN")
             ELSE citationList(hp, level + 1, hp[r].Citation)
                    \o noteList(level + 1, hp[r].Note)
                    \o userDefinedList(hp, level + 1, hp[r].UserDefined))
familyLink(hp, level, tg, r) ==
  IF r = 0 THEN <<>>
  ELSE IF hp[r].Family = 0 THEN Errorf("family missing")
  ELSE IF hp[hp[r].Family].Xref = <<>> THEN Errorf("family missing xref")
  ELSE tagWithPointer(level, tg, hp[hp[r].Family].Xref)
         \o maybeTagWithText(level + 1, T.PEDI, hp[r].Type)
         \o noteList(level + 1, hp[r].Note)
individualRef(hp, level, tg, r) ==
  IF r = 0 THEN <<>>
  ELSE IF hp[r].Xref = <<>> THEN Errorf("individual missing xref")
  ELSE tagWithPointer(level, tg, hp[r].Xref)
familyRef(hp, level, tg, r) ==
  IF r = 0 THEN <<>>
  ELSE IF hp[r].Xref = <<>> THEN Errorf("family missing xref")
  ELSE tagWithPointer(level, tg, hp[r].Xref)
event(hp, level, r) ==
  IF r = 0 THEN Errorf("event not specified")
  ELSE tag(level, hp[r].Tag, hp[r].Value)
         \o maybeTagWithText(level + 1, T.TYPE, hp[r].Type)
         \o maybeTagWithText(level + 1, T.DATE, hp[r].Date)
         \o address(hp, level + 1, hp[r].Address)
         \o place(hp, level + 1, hp[r].Place)
         \o maybeTag(level + 1, T.AGNC, hp[r].ResponsibleAgency)
         \o maybeTag(level + 1, T.RELI, hp[r].ReligiousAffiliation)
         \o maybeTag(level + 1, T.CAUS, hp[r].Cause)
         \o maybeTag(level + 1, T.RESN, hp[r].RestrictionNotice)
         \o (IF hp[r].ChildInFamily # 0
               THEN familyRef(hp, level + 1, T.FAMC, hp[r].ChildInFamily)
                      \o (IF hp[r].Tag = T.ADOP
                            THEN maybeTag(level + 2, T.ADOP, hp[r].AdoptedByParent)
                            ELSE <<>>)
               ELSE <<>>)
         \o noteList(level + 1, hp[r].Note)
         \o citationList(hp, level + 1, hp[r].Citation)
         \o mediaRefList(hp, level + 1, hp[r].Media)
         \o userDefinedList(hp, level + 1, hp[r].UserDefined)
eventList(hp, level, rs) ==
  Each([i \in DOMAIN rs |-> event(hp, level, rs[i])])

individual(hp, r) ==
  IF r = 0 THEN <<>>
  ELSE tagWithID(0, T.INDI, hp[r].Xref)
         \o Each([i \in DOMAIN hp[r].Name |-> name(hp, 1, hp[r].Name[i])])
         \o maybeTagWithText(1, T.SEX, hp[r].Sex)
         \o eventList(hp, 1, hp[r].Event)
         \o eventList(hp, 1, hp[r].Attribute)
         \o Each([i \in DOMAIN hp[r].Parents |-> familyLink(hp, 1, T.FAMC, hp[r].Parents[i])])
         \o Each([i \in DOMAIN hp[r].Family |-> familyLink(hp, 1, T.FAMS, hp[r].Family[i])])
         \o (IF Len(hp[r].Submitter) > 0 THEN Errorf("not implemented: Submitter")
             ELSE IF Len(hp[r].Association) > 0 THEN Errorf("not implemented: Association")
             ELSE maybeTagWithText(1, T.RFN, hp[r].PermanentRecordFileNumber)
                    \o maybeTagWithText(1, T.AFN, hp[r].AncestralFileNumber)
                    \o userReferenceList(hp, 1, hp[r].UserReference)
                    \o maybeTagWithText(1, T.RIN, hp[r].AutomatedRecordId)
                    \o change(1, hp[r].Change)
                    \o noteList(1, hp[r].Note)
                    \o citationList(hp, 1, hp[r].Citation)
                    \o mediaRefList(hp, 1, hp[r].Media)
                    \o userDefinedList(hp, 1, hp[r].UserDefined))
family(hp, r) ==
  IF r = 0 THEN <<>>
  ELSE tagWithID(0, T.FAM, hp[r].Xref)
         \o individualRef(hp, 1, T.HUSB, hp[r].Husband)
         \o individualRef(hp, 1, T.WIFE, hp[r].Wife)
         \o Each([i \in DOMAIN hp[r].Child |-> individualRef(hp, 1, T.CHIL, hp[r].Child[i])])
         \o eventList(hp, 1, hp[r].Event)
         \o maybeTag(1, T.NCHI, hp[r].NumberOfChildren)
         \o userReferenceList(hp, 1, hp[r].UserReference)
         \o maybeTagWithText(1, T.RIN, hp[r].AutomatedRecordId)
         \o change(1, hp[r].Change)
         \o noteList(1, hp[r].Note)
         \o citationList(hp, 1, hp[r].Citation)
         \o mediaRefList(hp, 1, hp[r].Media)
         \o userDefinedList(hp, 1, hp[r].UserDefined)
media(hp, level, r) ==
  IF r = 0 THEN <<>>
  ELSE (IF level = 0 THEN tagWithID(level, T.OBJE, hp[r].Xref)
        ELSE tagWithOptionalPointer(level, T.OBJE, hp[r].Xref))
         \o Each([i \in DOMAIN hp[r].File |-> file(hp, level + 1, hp[r].File[i])])
         \o userReferenceList(hp, level + 1, hp[r].UserReference)
         \o maybeTagWithText(level + 1, T.RIN, hp[r].AutomatedRecordId)
         \o change(level + 1, hp[r].Change)
         \o noteList(level + 1, hp[r].Note)
         \o citationList(hp, level + 1, hp[r].Citation)
         \o userDefinedList(hp, level + 1, hp[r].UserDefined)
repository(hp, r) ==
  IF r = 0 THEN <<>>
  ELSE tagWithID(0, T.REPO, hp[r].Xref)
         \o maybeTag(1, T.NAME, hp[r].Name)
         \o address(hp, 1, hp[r].Address)
         \o noteList(1, hp[r].Note)
         \o userReferenceList(hp, 1, hp[r].UserReference)
         \o maybeTagWithText(1, T.RIN, hp[r].AutomatedRecordId)
         \o change(1, hp[r].Change)
         \o userDefinedList(hp, 1, hp[r].UserDefined)
source(hp, r) ==
  IF r = 0 THEN <<>>
  ELSE tagWithID(0, T.SOUR, hp[r].Xref)
         \o maybeTagWithText(1, T.TITL, hp[r].Title)
         \o (IF hp[r].Data # 0
               THEN tag(1, T.DATA, <<>>)
                      \o Each([i \in DOMAIN hp[hp[r].Data].Event |->
                                 LET sr == hp[hp[hp[r].Data].Event[i]] IN
                                 tag(2, T.EVEN, sr.Kind)
                                   \o maybeTag(3, T.DATE, sr.Date)
                                   \o maybeTag(3, T.PLAC, sr.Place)])
               ELSE <<>>)
         \o maybeTagWithText(1, T.AUTH, hp[r].Originator)
         \o maybeTagWithText(1, T.ABBR, hp[r].FiledBy)
         \o maybeTagWithText(1, T.PUBL, hp[r].PublicationFacts)
         \o maybeTagWithText(1, T.TEXT, hp[r].Text)
         \o (IF /\ hp[r].Repository # 0
                /\ hp[hp[r].Repository].Repository # 0
                /\ hp[hp[hp[r].Repository].Repository].Xref # <<>>
               THEN LET sr == hp[hp[r].Repository] IN
                    tagWithPointer(1, T.REPO, hp[sr.Repository].Xref)
                      \o noteList(2, sr.Note)
                      \o Each([i \in DOMAIN sr.CallNumber |->
                                 tag(2, T.CALN, hp[sr.CallNumber[i]].CallNumber)
                                   \o maybeTag(3, T.MEDI, hp[sr.CallNumber[i]].MediaType)])
               ELSE <<>>)
         \o userReferenceList(hp, 1, hp[r].UserReference)
         \o maybeTagWithText(1, T.RIN, hp[r].AutomatedRecordId)
         \o change(1, hp[r].Change)
         \o noteList(1, hp[r].Note)
         \o mediaRefList(hp, 1, hp[r].Media)
         \o userDefinedList(hp, 1, hp[r].UserDefined)
submitter(hp, level, r) ==
  IF r = 0 THEN <<>>
  ELSE tagWithID(level, T.SUBM, hp[r].Xref)
         \o maybeTagWithText(level + 1, T.NAME, hp[r].Name)
         \o (IF hp[r].Address = 0 THEN <<>> ELSE address(hp, level + 1, hp[hp[r].Address]))
         \o mediaRefList(hp, level + 1, hp[r].Media)
         \o Each([i \in DOMAIN hp[r].Language |->
                    maybeTagWithText(level + 1, T.LANG, hp[r].Language[i])])
         \o maybeTagWithText(level + 1, T.RFN, hp[r].SubmitterRecordFileID)
         \o maybeTagWithText(level + 1, T.RIN, hp[r].AutomatedRecordId)
         \o noteList(level + 1, hp[r].Note)
         \o (IF hp[r].Change = 0 THEN <<>> ELSE change(level + 1, hp[hp[r].Change]))
\* nothing to do
trailer(r) ==
  <<>>
\* Encode with the loop over g.Family before the loop over g.Individual
EncodeFamiliesFirst(hp, g) ==
  header(hp, g.Header)
    \o Each([i \in DOMAIN g.Family |-> family(hp, g.Family[i])])
    \o Each([i \in DOMAIN g.Individual |-> individual(hp, g.Individual[i])])
    \o Each([i \in DOMAIN g.Media |-> media(hp, 0, g.Media[i])])
    \o Each([i \in DOMAIN g.Repository |-> repository(hp, g.Repository[i])])
    \o Each([i \in DOMAIN g.Source |-> source(hp, g.Source[i])])
    \o Each([i \in DOMAIN g.Submitter |-> submitter(hp, 0, g.Submitter[i])])
    \o userDefinedList(hp, 0, g.UserDefined)
    \o trailer(g.Trailer)
\* The writes of Encoder.Encode(g) up to e.flush()
Encode(hp, g) ==
  header(hp, g.Header)
    \o Each([i \in DOMAIN g.Individual |-> individual(hp, g.Individual[i])])
    \o Each([i \in DOMAIN g.Family |-> family(hp, g.Family[i])])
    \o Each([i \in DOMAIN g.Media |-> media(hp, 0, g.Media[i])])
    \o Each([i \in DOMAIN g.Repository |-> repository(hp, g.Repository[i])])
    \o Each([i \in DOMAIN g.Source |-> source(hp, g.Source[i])])
    \o Each([i \in DOMAIN g.Submitter |-> submitter(hp, 0, g.Submitter[i])])
    \o userDefinedList(hp, 0, g.UserDefined)
    \o trailer(g.Trailer)
\* e.flush(): the error Encode returns
flush(e) ==
  e.err

\* ------------------------------------------------------------------ Decode
\* The variables of Encode and of the second Decode, and their values while
\* neither has been called
again ==
  <<enc, scn, d2, lines2, ret2>>
NotReturned ==
  [g |-> "none", err |-> "none"]
NoEncode ==
  /\ enc = NewEncoder
  /\ scn = NewScanner(<<>>)
  /\ d2 = NewDecoder
  /\ lines2 = <<>>
  /\ ret2 = NotReturned

\* NewDecoder, with or without a call of LogUnhandledTags, then Decode
Init ==
  /\ phase = "scan"
  /\ vocab \in Vocabularies
  /\ lines = <<>>
  /\ \E sink \in BOOLEAN : d = [NewDecoder EXCEPT !.tagLogger = sink]
  /\ ret = NotReturned
  /\ NoEncode

\* Decoder.scan, one turn of the loop in which s.Next() yields a line:
\* d.line = s.line and the parser on top of the stack is called with it.
Scan(l) ==
  /\ phase = "scan"
  /\ Len(lines) < MaxLines
  /\ lines' = Append(lines, l)
  /\ d' = Dispatch([d EXCEPT !.line = Len(lines) + 1, !.calls = <<>>], l)
  /\ phase' = IF d'.panic THEN "panic" ELSE "scan"
  /\ UNCHANGED <<vocab, ret, again>>
ScanLine ==
  \E l \in Vocabulary(vocab) : Scan(l)

\* Decode returning the graph built so far together with the scan error
ScanFailWithGraph ==
  /\ phase = "scan"
  /\ phase' = "returned"
  /\ ret' = [g |-> "g", err |-> "ScanErr"]
  /\ UNCHANGED <<vocab, lines, d, again>>
\* s.Next() is false and s.Err() is not nil: scan returns the error and Decode
\* returns nil, err.
ScanFail ==
  /\ phase = "scan"
  /\ phase' = "returned"
  /\ ret' = [g |-> "nil", err |-> "ScanErr"]
  /\ UNCHANGED <<vocab, lines, d, again>>

\* s.Next() is false at the end of the input: scan returns nil and Decode
\* returns g, nil.
ScanEnd ==
  /\ phase = "scan"
  /\ phase' = "returned"
  /\ ret' = [g |-> "g", err |-> "nil"]
  /\ UNCHANGED <<vocab, lines, d, again>>

\* ------------------------------------------------------------------ well-formed files
\* Line l may follow the lines ls of a file: the file opens with HEAD, nothing
\* follows TRLR, a level is at most one deeper than the level before it, every
\* line is in the structure it belongs to (under) and an xref is defined once
Follows(ls, l) ==
  LET under == CASE l.tag \in {T.NAME, T.SEX, T.NOTE} -> T.INDI
                 [] l.tag = T.GIVN -> T.NAME
                 [] l.tag = T.CONT -> T.NOTE
                 [] OTHER -> <<>>
      above == {k \in DOMAIN ls : ls[k].level < l.level}
      enclosing == IF above = {} THEN <<>>
                   ELSE ls[CHOOSE k \in above : \A j \in above : j <= k].tag
  IN IF ls = <<>> THEN l.tag = T.HEAD
     ELSE /\ l.tag # T.HEAD
          /\ ls[Len(ls)].tag # T.TRLR
          /\ l.level <= ls[Len(ls)].level + 1
          /\ enclosing = under
          /\ l.xref # <<>> => \A k \in DOMAIN ls : ls[k].xref # l.xref
ScanWellFormed ==
  \E l \in Vocabulary(vocab) : Follows(lines, l) /\ Scan(l)
\* The end of a file that closes with TRLR
ScanEndWellFormed ==
  /\ lines # <<>>
  /\ lines[Len(lines)].tag = T.TRLR
  /\ ScanEnd

\* ------------------------------------------------------------------ Encode, Decode again
HasGraph ==
  phase = "built" \/ (phase = "returned" /\ ret.err = "nil")
\* enc.Encode(g) on a new Encoder for the graph of d; when it returns no
\* error, NewDecoder on the bytes written
EncodeGraph ==
  /\ HasGraph
  /\ enc' = EmitAll(NewEncoder, Encode(d.heap, d.g))
  /\ IF flush(enc') = "nil"
       THEN phase' = "rescan" /\ scn' = NewScanner(enc'.w)
       ELSE phase' = "done" /\ scn' = scn
  /\ UNCHANGED <<vocab, lines, d, ret, d2, lines2, ret2>>

\* Decoder.scan of the second Decode, one turn of the loop of s.Next(): a
\* rune is read; when Next returns true the parser on top of the stack is
\* called with the line, when it returns false scan and Decode return.
ScanRune ==
  /\ phase = "rescan"
  /\ scn' = ReadRune(IF scn.ret = "continue" THEN scn ELSE ScannerNext(scn))
  /\ CASE scn'.ret = "true" ->
            LET l == Line(scn'.level, scn'.tag, scn'.value, scn'.xref) IN
            /\ lines2' = Append(lines2, l)
            /\ d2' = Dispatch([d2 EXCEPT !.line = scn'.line, !.calls = <<>>], l)
            /\ phase' = IF d2'.panic THEN "panic" ELSE "rescan"
            /\ ret2' = ret2
       [] scn'.ret = "false" ->
            /\ ret2' = IF scn'.err # NoErr THEN [g |-> "nil", err |-> "ScanErr"]
                       ELSE [g |-> "g", err |-> "nil"]
            /\ phase' = "done"
            /\ UNCHANGED <<d2, lines2>>
       [] OTHER -> UNCHANGED <<phase, d2, lines2, ret2>>
  /\ UNCHANGED <<vocab, lines, d, ret, enc>>

\* ------------------------------------------------------------------ texts
\* The texts: every string of up to MaxText characters, each an ASCII
\* character or the two bytes of U+00E9; alone, after WrapLen - 1 characters
\* that fill a line but for one (the first line, or the one after a newline)
\* and after two lines' worth of them
Texts ==
  LET chars == {<<"a">>, <<" ">>, <<"\n">>, <<"C3", "A9">>}
      short == {Each(cs) : cs \in UNION {[1..n -> chars] : n \in 0..MaxText}}
      pad == [i \in 1..(WrapLen - 1) |-> "a"]
  IN short \cup {pad \o t : t \in short}
           \cup {<<"a", "\n">> \o pad \o t : t \in short}
           \cup {pad \o <<"a">> \o pad \o t : t \in short}
\* A graph made by the caller: a header whose Note is one of the texts
InitText ==
  /\ phase = "built"
  /\ vocab = "text"
  /\ lines = <<>>
  /\ \E text \in Texts :
       d = [NewDecoder EXCEPT !.heap = <<[NewRecord("Header") EXCEPT !.Note = text]>>,
                              !.g.Header = 1]
  /\ ret = NotReturned
  /\ NoEncode
NextText ==
  \/ EncodeGraph
  \/ ScanRune
SpecText ==
  InitText /\ [][NextText]_vars

\* ------------------------------------------------------------------ round trip
InitRT ==
  /\ phase = "scan"
  /\ vocab = "round"
  /\ lines = <<>>
  /\ d = NewDecoder
  /\ ret = NotReturned
  /\ NoEncode
NextRT ==
  \/ ScanWellFormed
  \/ ScanEndWellFormed
  \/ EncodeGraph
  \/ ScanRune
SpecRT ==
  InitRT /\ [][NextRT]_vars

\* Graphs to encode: those decoded from files whose lines are nested, a line
\* at most one level below the line before it and the first at level 0, and
\* that define an xref once
EncVocabularies ==
  {"ptr", "order", "sub"}
InitEnc ==
  /\ phase = "scan"
  /\ vocab \in EncVocabularies
  /\ lines = <<>>
  /\ d = NewDecoder
  /\ ret = NotReturned
  /\ NoEncode
ScanNested ==
  \E l \in Vocabulary(vocab) :
    /\ l.level <= (IF lines = <<>> THEN 0 ELSE lines[Len(lines)].level + 1)
    /\ l.xref # <<>> => \A k \in DOMAIN lines : lines[k].xref # l.xref
    /\ Scan(l)
NextEnc ==
  \/ ScanNested
  \/ ScanEnd
  \/ EncodeGraph
SpecEnc ==
  InitEnc /\ [][NextEnc]_vars

\* ------------------------------------------------------------------ substructures
\* Decode of a nested file written in the tags of one substructure
InitSub ==
  /\ phase = "scan"
  /\ vocab \in {"adop", "birth", "publ", "alia", "corp", "repo", "resi"}
  /\ lines = <<>>
  /\ d = NewDecoder
  /\ ret = NotReturned
  /\ NoEncode
NextSub ==
  \/ ScanNested
  \/ ScanEnd
SpecSub ==
  InitSub /\ [][NextSub]_vars

\* ------------------------------------------------------------------ user-defined tags
\* Decode of a nested file with user-defined tags, Encode of the graph, with
\* or without a trailer set by the caller, and Decode of the bytes written
InitUser ==
  /\ phase = "scan"
  /\ vocab = "udef"
  /\ lines = <<>>
  /\ d = NewDecoder
  /\ ret = NotReturned
  /\ NoEncode
\* g.Trailer = &gedcom.Trailer{} on the graph Decode returned
SetTrailer ==
  /\ phase = "returned" /\ ret.err = "nil"
  /\ d.g.Trailer = 0
  /\ d' = [Alloc(d, [kind |-> "Trailer"]) EXCEPT !.g.Trailer = NextId(d)]
  /\ UNCHANGED <<phase, vocab, lines, ret, again>>
NextUser ==
  \/ ScanNested
  \/ ScanEnd
  \/ SetTrailer
  \/ EncodeGraph
  \/ ScanRune
SpecUser ==
  InitUser /\ [][NextUser]_vars

\* ------------------------------------------------------------------ personal names
\* SplitPersonalName when its loop begins at the part before the first slash
SplitPersonalNameFromFirst(str) ==
  LET \* strings.TrimSpace, and strings.TrimRight for a set of bytes
      TrimRight(s, cutset) ==
        LET keep == {i \in DOMAIN s : s[i] \notin cutset}
        IN IF keep = {} THEN <<>>
           ELSE SubSeq(s, 1, CHOOSE i \in keep : \A j \in keep : j <= i)
      TrimSpace(s) ==
        LET keep == {i \in DOMAIN s : ~isSpace(s[i])}
        IN IF keep = {} THEN <<>>
           ELSE SubSeq(s, CHOOSE i \in keep : \A j \in keep : i <= j,
                          CHOOSE i \in keep : \A j \in keep : j <= i)
      \* strings.Join(ps, "/")
      Join(ps) ==
        IF ps = <<>> THEN <<>>
        ELSE ps[1] \o Each([k \in 1..(Len(ps) - 1) |-> <<"/">> \o ps[k + 1]])
      trimmed == TrimSpace(str)
      parts == Split(trimmed, "/")
      \* The parts the loops pass over with continue, or stop at with break
      skipped(p) == Len(p) = 0 \/ p[1] = " " \/ p[Len(p)] = " "
      \* parts[i] of the code is parts[i + 1] here
      found == {i \in 1..Len(parts) : ~skipped(parts[i])}
  IN IF Len(parts) = 1
       THEN [Full |-> trimmed, Given |-> trimmed, Surname |-> <<>>, Suffix |-> <<>>]
     ELSE IF found = {}
       THEN [Full |-> TrimRight(trimmed, {"/", " "}),
             Given |-> TrimRight(trimmed, {"/", " "}),
             Surname |-> <<>>, Suffix |-> <<>>]
     ELSE LET i == CHOOSE k \in found : \A n \in found : k <= n
              \* The last part the inner loop appends to the surname
              j == CHOOSE k \in i..Len(parts) :
                     /\ \A n \in i..k : ~skipped(parts[n])
                     /\ k = Len(parts) \/ skipped(parts[k + 1])
              Given == TrimSpace(Join(SubSeq(parts, 1, i - 1)))
              Surname == Join(SubSeq(parts, i, j))
              Suffix == TrimSpace(Join(SubSeq(parts, j + 1, Len(parts))))
              withSurname == IF Len(Surname) > 0
                               THEN (IF Len(Given) > 0 THEN Given \o <<" ">> ELSE Given)
                                      \o Surname
                               ELSE Given
              Full == IF Len(Suffix) > 0
                        THEN (IF Len(withSurname) > 0 THEN withSurname \o <<" ">>
                              ELSE withSurname) \o Suffix
                        ELSE withSurname
          IN [Full |-> Full, Given |-> Given, Surname |-> Surname, Suffix |-> Suffix]
SplitPersonalName(str) ==
  LET \* strings.TrimSpace, and strings.TrimRight for a set of bytes
      TrimRight(s, cutset) ==
        LET keep == {i \in DOMAIN s : s[i] \notin cutset}
        IN IF keep = {} THEN <<>>
           ELSE SubSeq(s, 1, CHOOSE i \in keep : \A j \in keep : j <= i)
      TrimSpace(s) ==
        LET keep == {i \in DOMAIN s : ~isSpace(s[i])}
        IN IF keep = {} THEN <<>>
           ELSE SubSeq(s, CHOOSE i \in keep : \A j \in keep : i <= j,
                          CHOOSE i \in keep : \A j \in keep : j <= i)
      \* strings.Join(ps, "/")
      Join(ps) ==
        IF ps = <<>> THEN <<>>
        ELSE ps[1] \o Each([k \in 1..(Len(ps) - 1) |-> <<"/">> \o ps[k + 1]])
      trimmed == TrimSpace(str)
      parts == Split(trimmed, "/")
      \* The parts the loops pass over with continue, or stop at with break
      skipped(p) == Len(p) = 0 \/ p[1] = " " \/ p[Len(p)] = " "
      \* parts[i] of the code is parts[i + 1] here
      found == {i \in 2..Len(parts) : ~skipped(parts[i])}
  IN IF Len(parts) = 1
       THEN [Full |-> trimmed, Given |-> trimmed, Surname |-> <<>>, Suffix |-> <<>>]
     ELSE IF found = {}
       THEN [Full |-> TrimRight(trimmed, {"/", " "}),
             Given |-> TrimRight(trimmed, {"/", " "}),
             Surname |-> <<>>, Suffix |-> <<>>]
     ELSE LET i == CHOOSE k \in found : \A n \in found : k <= n
              \* The last part the inner loop appends to the surname
              j == CHOOSE k \in i..Len(parts) :
                     /\ \A n \in i..k : ~skipped(parts[n])
                     /\ k = Len(parts) \/ skipped(parts[k + 1])
              Given == TrimSpace(Join(SubSeq(parts, 1, i - 1)))
              Surname == Join(SubSeq(parts, i, j))
              Suffix == TrimSpace(Join(SubSeq(parts, j + 1, Len(parts))))
              withSurname == IF Len(Surname) > 0
                               THEN (IF Len(Given) > 0 THEN Given \o <<" ">> ELSE Given)
                                      \o Surname
                               ELSE Given
              Full == IF Len(Suffix) > 0
                        THEN (IF Len(withSurname) > 0 THEN withSurname \o <<" ">>
                              ELSE withSurname) \o Suffix
                        ELSE withSurname
          IN [Full |-> Full, Given |-> Given, Surname |-> Surname, Suffix |-> Suffix]
\* A caller with the value of a NAME line: every string of up to MaxName bytes
\* that are letters, spaces and slashes
InitName ==
  /\ phase = "name"
  /\ vocab = "split"
  /\ \E str \in UNION {[1..n -> {"a", "b", " ", "/"}] : n \in 0..MaxName} :
       lines = <<Line(1, T.NAME, str, <<>>)>>
  /\ d = NewDecoder
  /\ ret = NotReturned
  /\ NoEncode
\* ret is what SplitPersonalName returns for the value of the line
SplitName ==
  /\ phase = "name"
  /\ phase' = "split"
  /\ ret' = SplitPersonalName(lines[1].value)
  /\ UNCHANGED <<vocab, lines, d, again>>
NextName ==
  SplitName
SpecName ==
  InitName /\ [][NextName]_vars

\* ------------------------------------------------------------------ tokenizer inputs
\* The lines of an input as they stand in the file: lines of the format and,
\* at level -1, text that is no line of the format
ScanLines ==
  {Line(0, T.HEAD, <<>>, <<>>), Line(0, T.INDI, <<>>, <<"X">>),
   Line(1, T.NOTE, <<"a">>, <<>>), Line(2, T.CONT, <<"b">>, <<>>),
   Line(1, T.FAMC, <<"@", "X", "@">>, <<>>),
   Line(-1, <<>>, <<"b", "c">>, <<>>), Line(-1, <<>>, <<"2", "x">>, <<>>)}
\* The bytes of a line in the file, without its terminator
Written(l) ==
  IF l.level < 0 THEN l.value
  ELSE Sprintd(l.level) \o <<" ">>
         \o (IF l.xref # <<>> THEN <<"@">> \o l.xref \o <<"@", " ">> ELSE <<>>)
         \o l.tag
         \o (IF l.value # <<>> THEN <<" ">> \o l.value ELSE <<>>)
\* The inputs with the lines ls in a layout: "endings" ends each line with LF,
\* with CR LF or with a bare CR; "indents" puts nothing, a space and a tab, or
\* a blank line before each line and ends it with LF; any other ends each line
\* with LF
Terminated(ls, layout) ==
  LET indents == IF layout = "indents"
                   THEN {<<>>, <<" ", "\t">>, <<"\r", "\n">>}
                   ELSE {<<>>}
      endings == IF layout = "endings"
                   THEN {<<"\n">>, <<"\r", "\n">>, <<"\r">>}
                   ELSE {<<"\n">>}
  IN {Each([i \in DOMAIN ls |-> ins[i] \o Written(ls[i]) \o ts[i]]) :
        ins \in [DOMAIN ls -> indents], ts \in [DOMAIN ls -> endings]}
\* The inputs with the lines ls: in either layout, or every line ended with
\* LF and then a tail, which is nothing, whitespace, or the start of a line
\* that has no terminator
Inputs(ls) ==
  LET starts(w) == {SubSeq(w, 1, n) : n \in 1..Len(w)}
      tails == {<<>>, <<" ">>, <<"\t">>}
                 \cup starts(Written(Line(1, T.SEX, <<"M">>, <<>>)))
                 \cup starts(Written(Line(0, T.INDI, <<>>, <<"X">>)))
      unix == Each([i \in DOMAIN ls |-> Written(ls[i]) \o <<"\n">>])
  IN Terminated(ls, "endings") \cup Terminated(ls, "indents")
       \cup {unix \o tail : tail \in tails}
\* NewDecoder on the bytes of an input, and Decode: the tokenizer reads the
\* input rune by rune.  The stream ends with io.EOF or, for the inputs that
\* end every line with LF, fails with a read error once its bytes are read.
InitScan ==
  /\ phase = "rescan"
  /\ vocab = "scan"
  /\ lines \in UNION {[1..n -> ScanLines] : n \in 0..MaxScanLines}
  /\ d = NewDecoder
  /\ ret = NotReturned
  /\ enc = NewEncoder
  /\ \/ \E input \in Inputs(lines) : scn = NewScanner(input)
     \/ \E input \in Terminated(lines, "unix") :
          scn = [NewScanner(input) EXCEPT !.rerr = "io.ErrClosedPipe"]
  /\ d2 = NewDecoder
  /\ lines2 = <<>>
  /\ ret2 = NotReturned
\* A caller of the Scanner that goes on calling Next after it returned false
\* with an error, as long as input is left: one turn of the loop of Next
NextAgain ==
  /\ vocab = "scan"
  /\ phase \in {"done", "again"}
  /\ scn.err # NoErr
  /\ scn.ret = "continue" \/ scn.pos < Len(scn.r)
  /\ scn' = ReadRune(IF scn.ret = "continue" THEN scn ELSE ScannerNext(scn))
  /\ phase' = "again"
  /\ lines2' = IF scn'.ret = "true"
                 THEN Append(lines2, Line(scn'.level, scn'.tag, scn'.value, scn'.xref))
                 ELSE lines2
  /\ UNCHANGED <<vocab, lines, d, ret, enc, d2, ret2>>
NextScan ==
  \/ ScanRune
  \/ NextAgain
SpecScan ==
  InitScan /\ [][NextScan]_vars

Next ==
  \/ ScanLine
  \/ ScanFail
  \/ ScanEnd

Spec ==
  Init /\ [][Next]_vars

\* ------------------------------------------------------------------ equality of graphs
\* What the fields of a struct type hold besides strings, lists of strings and
\* numbers: embedded structs (emb, with their types), pointers to records that
\* are shared through their xref (ref, refs for a list of them) and pointers to
\* the substructures of the record (ptr, ptrs for a list of them)
Fields(emb, ref, refs, ptr, ptrs) ==
  [emb |-> emb, ref |-> ref, refs |-> refs, ptr |-> ptr, ptrs |-> ptrs]
Schema(type) ==
  CASE type = "Gedcom" ->
         Fields(<<>>, {}, {}, {"Header", "Trailer"},
                {"Family", "Individual", "Media", "Repository", "Source",
                 "Submitter", "UserDefined"})
    [] type = "Header" ->
         Fields([SourceSystem |-> "SystemRecord", Place |-> "PlaceRecord"],
                {"Submitter", "Submission"}, {}, {}, {"UserDefined"})
    [] type = "SystemRecord" ->
         Fields([Address |-> "AddressRecord"], {}, {}, {}, {"UserDefined"})
    [] type = "AddressRecord" -> Fields(<<>>, {}, {}, {}, {"Address"})
    [] type = "ChangeRecord" -> Fields(<<>>, {}, {}, {}, {"Note"})
    [] type = "PlaceRecord" ->
         Fields(<<>>, {}, {}, {}, {"Phonetic", "Romanized", "Citation", "Note"})
    [] type = "DataRecord" -> Fields(<<>>, {}, {}, {}, {"UserDefined"})
    [] type = "SubmitterRecord" ->
         Fields(<<>>, {}, {}, {"Address", "Change"}, {"Media", "Note"})
    [] type = "FamilyRecord" ->
         Fields([Change |-> "ChangeRecord"], {"Husband", "Wife"}, {"Child"}, {},
                {"Event", "UserReference", "Note", "Citation", "Media", "UserDefined"})
    [] type = "IndividualRecord" ->
         Fields([Change |-> "ChangeRecord"], {}, {"Submitter"}, {},
                {"Name", "Event", "Attribute", "Parents", "Family", "Association",
                 "UserReference", "Note", "Citation", "Media", "UserDefined"})
    [] type = "MediaRecord" ->
         Fields([Change |-> "ChangeRecord"], {}, {}, {},
                {"File", "UserReference", "Note", "Citation", "UserDefined"})
    [] type = "RepositoryRecord" ->
         Fields([Change |-> "ChangeRecord", Address |-> "AddressRecord"], {}, {}, {},
                {"Note", "UserReference", "UserDefined"})
    [] type = "SourceRecord" ->
         Fields([Change |-> "ChangeRecord"], {}, {}, {"Data", "Repository"},
                {"UserReference", "Note", "Media", "UserDefined"})
    [] type = "SourceDataRecord" -> Fields(<<>>, {}, {}, {}, {"Event"})
    [] type = "SourceRepositoryRecord" ->
         Fields(<<>>, {"Repository"}, {}, {}, {"Note", "CallNumber"})
    [] type = "CitationRecord" ->
         Fields([Data |-> "DataRecord"], {"Source"}, {}, {},
                {"Media", "Note", "UserDefined"})
    [] type \in {"NameRecord", "VariantNameRecord"} ->
         Fields(<<>>, {}, {}, {},
                {"Phonetic", "Romanized", "Citation", "Note", "UserDefined"})
    [] type = "EventRecord" ->
         Fields([Place |-> "PlaceRecord", Address |-> "AddressRecord"],
                {"ChildInFamily"}, {}, {},
                {"Citation", "Media", "Note", "UserDefined"})
    [] type = "NoteRecord" -> Fields(<<>>, {}, {}, {}, {"Citation"})
    [] type = "FamilyLinkRecord" -> Fields(<<>>, {"Family"}, {}, {}, {"Note"})
    [] type \in {"FileRecord", "UserDefinedTag"} ->
         Fields(<<>>, {}, {}, {}, {"UserDefined"})
    [] type = "AssociationRecord" -> Fields(<<>>, {}, {}, {}, {"Citation", "Note"})
    [] OTHER -> Fields(<<>>, {}, {}, {}, {})
\* A pointer to a shared record, as the comparers of the round-trip test see
\* it: nil or not, and the xref of the record
XrefOf(hp, r) ==
  IF r = 0 THEN [nil |-> TRUE, Xref |-> <<>>] ELSE [nil |-> FALSE, Xref |-> hp[r].Xref]
\* The value of a struct of the given type with every pointer replaced by what
\* it points to
RECURSIVE Value(_, _, _)
Pointee(hp, r) ==
  IF r = 0 THEN [nil |-> TRUE] ELSE Value(hp, hp[r].kind, hp[r])
Value(hp, type, x) ==
  LET sc == Schema(type) IN
  [f \in DOMAIN x |->
     IF f \in DOMAIN sc.emb THEN Value(hp, sc.emb[f], x[f])
     ELSE IF f \in sc.ref THEN XrefOf(hp, x[f])
     ELSE IF f \in sc.refs THEN [i \in DOMAIN x[f] |-> XrefOf(hp, x[f][i])]
     ELSE IF f \in sc.ptr THEN Pointee(hp, x[f])
     ELSE IF f \in sc.ptrs THEN [i \in DOMAIN x[f] |-> Pointee(hp, x[f][i])]
     ELSE x[f]]
\* The graph a decoder has built
Graph(dd) ==
  Value(dd.heap, "Gedcom", dd.g)

\* ------------------------------------------------------------------ properties
Top ==
  d.parsers[Len(d.parsers)]
Returned ==
  phase = "returned" /\ ret.err = "nil"
\* The kinds of record a pointer value can refer to
Pointable ==
  {"IndividualRecord", "FamilyRecord", "SourceRecord", "MediaRecord",
   "RepositoryRecord", "SubmitterRecord", "SubmissionRecord"}
\* The objects of a pointable kind that carry xref x
Carrying(kind, x) ==
  {i \in DOMAIN d.heap : d.heap[i].kind = kind /\ d.heap[i].Xref = x}
XrefsOf(kind) ==
  {d.heap[i].Xref : i \in {j \in DOMAIN d.heap : d.heap[j].kind = kind}} \ {<<>>}
\* No xref string of the input is used for records of two kinds
KindsApart ==
  \A j, k \in Pointable : j # k => XrefsOf(j) \cap XrefsOf(k) = {}

\* C2: after a successful Decode of a file in which no xref string is used for
\* two kinds of record, every xref that occurs in the file, as a level-0
\* definition or as a pointer value, refers to one record object of its kind:
\* no two objects of a pointable kind carry the same xref.
XrefSharing ==
  (Returned /\ KindsApart) =>
    \A kind \in Pointable : \A x \in XrefsOf(kind) : Cardinality(Carrying(kind, x)) = 1

\* C3: of the lookups made so far, the first one for a (kind, xref) pair with a
\* non-empty xref returned a record of that kind carrying the xref, and every
\* later lookup for the same pair returned the same record, whatever was looked
\* up in between.
GetOrCreate ==
  \A i, j \in DOMAIN d.looked :
    LET a == d.looked[i]
        b == d.looked[j]
    IN (i <= j /\ a.xref # <<>> /\ a.kind = b.kind /\ a.xref = b.xref) =>
         /\ d.heap[a.ref].kind = a.kind
         /\ d.heap[a.ref].Xref = a.xref
         /\ b.ref = a.ref

\* The tags no handler recognises
UnknownTags ==
  {T._U, T._V}
UserDefinedNodes ==
  {i \in DOMAIN d.heap : d.heap[i].kind = "UserDefinedTag"}
\* C4: in a file that opens with a level-0 line, every line with a tag that no
\* handler recognises is in the graph as a user-defined node with the line's
\* tag, value, xref and level.
UnknownTagPreserved ==
  (lines # <<>> /\ lines[1].level = 0) =>
    \A k \in DOMAIN lines :
      lines[k].tag \in UnknownTags =>
        \E i \in UserDefinedNodes :
          /\ d.heap[i].Tag = lines[k].tag
          /\ d.heap[i].Value = lines[k].value
          /\ d.heap[i].Xref = lines[k].xref
          /\ d.heap[i].Level = lines[k].level

\* The handler of stack that keeps line l: the first from the top with
\* minLevel < l.level, or the root
Keeper(stack, l) ==
  CHOOSE i \in DOMAIN stack :
    /\ i = 1 \/ stack[i].minLevel < l.level
    /\ \A j \in (i + 1)..Len(stack) : stack[j].minLevel >= l.level
\* stack[n], stack[n - 1], ..., stack[k]
Downto(stack, k) ==
  [i \in 1..(Len(stack) - k + 1) |-> stack[Len(stack) - i + 1]]
\* C5: for every incoming line the handlers called are those of the stack from
\* the top down to the first with minLevel < line.level (or the root), each
\* once: all above it are popped, it is the only one that gets the line to
\* interpret, and the stack below it is left as it was.
LevelDrivenReturn ==
  [][lines' # lines =>
       LET l == lines'[Len(lines')]
           k == Keeper(d.parsers, l)
       IN /\ d'.calls = Downto(d.parsers, k)
          /\ SubSeq(d'.parsers, 1, k) = SubSeq(d.parsers, 1, k)
          /\ Len(d'.parsers) \in {k, k + 1}]_vars
\* One line has popped three handlers and reached the root
LevelDrivenReturnWitness ==
  /\ Len(d.calls) >= 4
  /\ d.calls[Len(d.calls)].p = "makeRootParser"

\* C6: every user-defined node nested in a user-defined node is from a line
\* exactly one level below its parent's line, and every user-defined node of a
\* level-0 record is from a line of level 1.
NestingByLevel ==
  \A i \in DOMAIN d.heap :
    /\ d.heap[i].kind = "UserDefinedTag" =>
         \A c \in 1..Len(d.heap[i].UserDefined) :
           d.heap[d.heap[i].UserDefined[c]].Level = d.heap[i].Level + 1
    /\ d.heap[i].kind = "IndividualRecord" =>
         \A c \in 1..Len(d.heap[i].UserDefined) :
           d.heap[d.heap[i].UserDefined[c]].Level = 1

\* C7: whatever lines the scanner yields, popParser never finds the stack
\* without a parser to return to, the root parser stays at the bottom of the
\* stack, and a scan that ends without error makes Decode return g, nil.
ParserNeverFails ==
  /\ ~d.panic
  /\ phase # "panic"
  /\ Len(d.parsers) >= 1
  /\ d.parsers[1].p = "makeRootParser"
  /\ ret.err = "nil" => ret.g = "g"
\* Decode has returned the graph of a file whose last line was handed down
\* the stack to the root parser
ParserNeverFailsWitness ==
  /\ Returned
  /\ ret.g = "g"
  /\ Len(d.calls) >= 3
  /\ d.calls[Len(d.calls)].p = "makeRootParser"

\* C8: when the scanner reports an error, Decode returns a nil graph and a
\* non-nil error and the decoder is as the last good line left it: no parser
\* is called for the failing line, and none after Decode has returned.
ScanErrorFatal ==
  [][/\ (phase = "scan" /\ phase' = "returned" /\ ret'.err # "nil") =>
          (ret'.g = "nil" /\ d' = d /\ lines' = lines)
     /\ phase = "returned" => (d' = d /\ lines' = lines /\ ret' = ret)]_vars
\* Decode has returned a scan error after lines had been parsed
ScanErrorFatalWitness ==
  /\ phase = "returned"
  /\ ret.err = "ScanErr"
  /\ ret.g = "nil"
  /\ Len(lines) >= 2
  /\ d.calls # <<>>

\* The string built from v by the CONT and CONC lines ls, in order
RECURSIVE Continued(_, _)
Continued(v, ls) ==
  IF ls = <<>> THEN v
  ELSE Continued(IF Head(ls).tag = T.CONT THEN v \o <<"\n">> \o Head(ls).value
                 ELSE v \o Head(ls).value,
                 Tail(ls))
\* The line that opened the text field being read: the last NOTE line, and the
\* lines that followed it
Opener ==
  CHOOSE k \in DOMAIN lines :
    lines[k].tag = T.NOTE /\ \A j \in (k + 1)..Len(lines) : lines[j].tag # T.NOTE
Following ==
  SubSeq(lines, Opener + 1, Len(lines))
InText ==
  /\ Top.p \in {"makeNoteParser", "makeTextParser"}
  /\ Top.minLevel = lines[Opener].level
  /\ \A j \in DOMAIN Following :
       Following[j].tag \in {T.CONT, T.CONC} /\ Following[j].level > Top.minLevel
\* The string of the text field the parser on top of the stack is bound to
TextRead ==
  IF Top.p = "makeNoteParser" THEN Field(d, Top, "Note") ELSE Deref(d, Top)
\* C9: while the CONT and CONC lines under a NOTE are being read, the decoded
\* string is the value of the NOTE line followed, for each of them in input
\* order, by a newline and its value for CONT and by its value alone for CONC.
ContinuationSemantics ==
  InText => TextRead = Continued(lines[Opener].value, Following)
\* A note has been continued by a CONT line and then by a CONC line
ContinuationSemanticsWitness ==
  /\ InText
  /\ Len(Following) >= 2
  /\ Following[1].tag = T.CONT
  /\ Following[2].tag = T.CONC
  /\ Following[2].value # <<>>

\* C1: when the graph decoded from a well-formed file has been encoded and the
\* bytes written decoded again, Encode has returned no error, the second
\* Decode has returned a graph and no error, and that graph equals the first:
\* the same records with the same fields, note and text contents and nesting.
RoundTrip ==
  (phase = "done" /\ ret.err = "nil") =>
    /\ flush(enc) = "nil"
    /\ ret2 = [g |-> "g", err |-> "nil"]
    /\ Graph(d2) = Graph(d)

\* C10: when a header whose Note is a given text has been encoded and the
\* bytes written tokenized and decoded, the Note of the decoded header is
\* exactly that text.
TextInverts ==
  (phase = "done" /\ ret = NotReturned) =>
    /\ ret2 = [g |-> "g", err |-> "nil"]
    /\ d2.g.Header # 0
    /\ d2.heap[d2.g.Header].Note = d.heap[d.g.Header].Note

\* The lines Encode wrote, each as its level (what precedes the first space),
\* its tag (what lies between the first space and the second) and its value
\* (what follows the second space)
WrittenLines ==
  LET ls == Split(enc.w, "\n")
      AsLine(bs) ==
        LET sp == {i \in DOMAIN bs : bs[i] = " "}
            first == CHOOSE i \in sp : \A j \in sp : i <= j
            later == {i \in sp : i > first}
            second == IF later = {} THEN Len(bs) + 1
                      ELSE CHOOSE i \in later : \A j \in later : i <= j
        IN [level |-> Decimal(SubSeq(bs, 1, first - 1)),
            tag |-> SubSeq(bs, first + 1, second - 1),
            value |-> SubSeq(bs, second + 1, Len(bs))]
  IN [i \in 1..(Len(ls) - 1) |-> AsLine(ls[i])]
\* The text given to tagWithText, and the lines written for it: the NOTE line
\* of the header and the lines after it
NoteText ==
  d.heap[d.g.Header].Note
NoteLines ==
  LET ws == WrittenLines
      k == CHOOSE i \in DOMAIN ws : ws[i].tag = T.NOTE /\ \A j \in 1..(i - 1) : ws[j].tag # T.NOTE
  IN SubSeq(ws, k, Len(ws))
\* Encode has just written a header whose Note is a text that is not empty
TextWritten ==
  /\ phase = "rescan"
  /\ ret = NotReturned
  /\ scn.pos = 0
  /\ NoteText # <<>>
\* The number of characters of a string: a character is one byte, or the two
\* bytes "C3" "A9"
CharCount(s) ==
  Cardinality({i \in DOMAIN s : s[i] # "A9"})
\* Characters (k - 1) * WrapLen + 1 to k * WrapLen of a string
Piece(s, k) ==
  LET no == [i \in DOMAIN s |-> Cardinality({j \in 1..i : s[j] # "A9"})]
      in == {i \in DOMAIN s : no[i] > (k - 1) * WrapLen /\ no[i] <= k * WrapLen}
  IN IF in = {} THEN <<>>
     ELSE SubSeq(s, CHOOSE i \in in : \A j \in in : i <= j,
                 CHOOSE i \in in : \A j \in in : i >= j)
\* The number of lines a string of n characters is written on
PieceCount(n) ==
  IF n <= WrapLen THEN 1 ELSE 1 + ((n - WrapLen) + WrapLen - 1) \div WrapLen
\* The lines of a text under tag tg at a level: the first segment under tg at
\* that level, every later segment under CONT one level below, and the
\* characters of a segment after its first WrapLen under CONC one level below
TextLines(level, tg, text) ==
  LET segs == Split(text, "\n") IN
  Each([i \in DOMAIN segs |->
          [k \in 1..PieceCount(CharCount(segs[i])) |->
             [level |-> IF i = 1 /\ k = 1 THEN level ELSE level + 1,
              tag |-> IF k > 1 THEN T.CONC ELSE IF i = 1 THEN tg ELSE T.CONT,
              value |-> Piece(segs[i], k)]]])

\* C11: the lines written for a text under NOTE at level 1 are the NOTE line
\* at level 1 with the first newline-separated segment, a CONT line at level 2
\* for every later segment, and, for a segment of more than 246 characters,
\* CONC lines at level 2 that hold the characters after the first 246, at most
\* 246 on each.
TextEmissionStructure ==
  TextWritten => NoteLines = TextLines(1, T.NOTE, NoteText)

\* C12: a text without a newline of n characters is written on one line when
\* n <= 246, and otherwise on a line that holds its first 246 characters and
\* ceil((n - 246) / 246) CONC lines, none empty and none longer than 246
\* characters, whose values in order make up the rest of the text.
LineWrapBoundary ==
  (TextWritten /\ \A i \in DOMAIN NoteText : NoteText[i] # "\n") =>
    LET ws == NoteLines IN
    /\ Len(ws) = PieceCount(CharCount(NoteText))
    /\ ws[1].value = Piece(NoteText, 1)
    /\ \A k \in 2..Len(ws) :
         /\ ws[k].tag = T.CONC
         /\ ws[k].value # <<>>
         /\ CharCount(ws[k].value) <= WrapLen
    /\ Each([k \in DOMAIN ws |-> ws[k].value]) = NoteText

\* Encode has returned for a graph decoded from a file of nested lines
Encoded ==
  vocab \in EncVocabularies /\ phase \in {"rescan", "done"}
\* The record r points to has no xref
NoIdentity(r) ==
  r # 0 /\ d.heap[r].Xref = <<>>
\* Some pointer Encode has to write refers to a record with no xref: the SUBM
\* or SUBN of the header, the FAMC or FAMS of an individual, the HUSB, WIFE or
\* CHIL of a family, the FAMC of an event
PointerWithoutIdentity ==
  LET hp == d.heap
      events(rs) == \E k \in DOMAIN rs : NoIdentity(hp[rs[k]].ChildInFamily)
      links(rs) == \E k \in DOMAIN rs : NoIdentity(hp[rs[k]].Family)
  IN \/ /\ d.g.Header # 0
        /\ \/ NoIdentity(hp[d.g.Header].Submitter)
           \/ NoIdentity(hp[d.g.Header].Submission)
     \/ \E i \in DOMAIN d.g.Individual :
          LET r == hp[d.g.Individual[i]] IN
          links(r.Parents) \/ links(r.Family) \/ events(r.Event) \/ events(r.Attribute)
     \/ \E i \in DOMAIN d.g.Family :
          LET r == hp[d.g.Family[i]] IN
          \/ NoIdentity(r.Husband)
          \/ NoIdentity(r.Wife)
          \/ \E k \in DOMAIN r.Child : NoIdentity(r.Child[k])
          \/ events(r.Event)

\* C13: when the graph holds a pointer to a record with no xref that Encode
\* has to write, Encode returns an error; and no line Encode writes holds the
\* empty identifier @@.
MissingIdentityAborts ==
  Encoded =>
    /\ \A i \in 1..(Len(enc.w) - 1) : ~(enc.w[i] = "@" /\ enc.w[i + 1] = "@")
    /\ PointerWithoutIdentity => flush(enc) # "nil"

\* The steps of Encode for the graph, and the first of them that records an
\* error (the number of steps plus one when none does)
Steps ==
  Encode(d.heap, d.g)
FirstFailure(cs) ==
  LET fs == {i \in DOMAIN cs : cs[i].op = "err" \/ (cs[i].op = "tagWithID" /\ cs[i].arg = <<>>)}
  IN IF fs = {} THEN Len(cs) + 1 ELSE CHOOSE i \in fs : \A j \in fs : i <= j
\* What the steps cs write to a new Encoder
Bytes(cs) ==
  EmitAll(NewEncoder, cs).w

\* C14: when a step of Encode records an error, Encode returns an error and
\* what it has written is what the steps before that one wrote: no later step,
\* of the same record or of a later one, has written a line.
ErrorLatch ==
  Encoded =>
    LET cs == Steps IN
    FirstFailure(cs) <= Len(cs) =>
      /\ flush(enc) # "nil"
      /\ enc.w = Bytes(SubSeq(cs, 1, FirstFailure(cs) - 1))
\* An error was recorded after some lines were written and before steps that
\* write lines, some of them of a later record
ErrorLatchWitness ==
  /\ Encoded
  /\ enc.w # <<>>
  /\ LET cs == Steps IN
     \E j \in (FirstFailure(cs) + 1)..Len(cs) :
       cs[j].op = "tagWithID" /\ cs[j].arg # <<>>

\* The steps of Encode record by record, in the order of the claim: the
\* header, the individuals, the families, the media, the repositories, the
\* sources, the submitters, the user-defined tags and the trailer
Records ==
  LET hp == d.heap
      g == d.g
  IN <<header(hp, g.Header)>>
       \o [i \in DOMAIN g.Individual |-> individual(hp, g.Individual[i])]
       \o [i \in DOMAIN g.Family |-> family(hp, g.Family[i])]
       \o [i \in DOMAIN g.Media |-> media(hp, 0, g.Media[i])]
       \o [i \in DOMAIN g.Repository |-> repository(hp, g.Repository[i])]
       \o [i \in DOMAIN g.Source |-> source(hp, g.Source[i])]
       \o [i \in DOMAIN g.Submitter |-> submitter(hp, 0, g.Submitter[i])]
       \o [i \in DOMAIN g.UserDefined |-> userDefined(hp, 0, hp[g.UserDefined[i]])]
       \o <<trailer(g.Trailer)>>

\* C15: when Encode returns no error, what it has written is the lines of the
\* header, then those of every individual, family, media, repository, source,
\* submitter and top-level user-defined tag in slice order, then those of the
\* trailer; the lines of a record are its level-0 line and lines below level 0.
EmissionOrder ==
  (Encoded /\ flush(enc) = "nil") =>
    /\ enc.w = Each([i \in DOMAIN Records |-> Bytes(Records[i])])
    /\ \A i \in DOMAIN Records :
         \A k \in 2..Len(Records[i]) : Records[i][k].level > 0
\* Two individuals and a family were written, the family defined in the file
\* before the second individual, and a record was written on several lines
EmissionOrderWitness ==
  /\ Encoded
  /\ flush(enc) = "nil"
  /\ Len(d.g.Individual) = 2
  /\ Len(d.g.Family) = 1
  /\ \E j, k \in DOMAIN lines : j < k /\ lines[j].tag = T.FAM /\ lines[k].tag = T.INDI
  /\ d.heap[d.g.Individual[1]].Sex # <<>>

\* C16: in what Encode writes without error, no line is more than one level
\* below the line before it; the NOTE and REFN lines of a level-0 record are
\* at level 1; a TYPE line is one level below the REFN, FONE or event line
\* before it; and the user-defined tags of the header's source system are one
\* level below its SOUR line.
EncoderNesting ==
  (Encoded /\ vocab = "sub" /\ flush(enc) = "nil") =>
    LET ws == WrittenLines IN
    /\ \A k \in 2..Len(ws) : ws[k].level <= ws[k - 1].level + 1
    /\ \A k \in DOMAIN ws :
         /\ ws[k].tag \in {T.NOTE, T.REFN} => ws[k].level = 1
         /\ ws[k].tag = T.TYPE => ws[k].level = ws[k - 1].level + 1
         /\ ws[k].tag = T._U => ws[k].level = 2

\* The line of a step that writes: the level, a space and the tag, then a
\* space and the value when there is one; for a pointer the level, the tag and
\* @xref@; for a record definition the level, @xref@ and the tag; then LF
WireLine(c) ==
  LET head == Sprintd(c.level) \o <<" ">> IN
  (CASE c.op = "tagWithID" -> head \o <<"@">> \o c.arg \o <<"@", " ">> \o c.tag
     [] c.op = "tagWithPointer" -> head \o c.tag \o <<" ", "@">> \o c.arg \o <<"@">>
     [] c.op = "tag" /\ c.arg = <<>> -> head \o c.tag
     [] c.op = "tag" /\ c.arg # <<>> -> head \o c.tag \o <<" ">> \o c.arg)
    \o <<"\n">>

\* C17: what Encode has written is, for every step before the first that
\* records an error, the line of that step in the wire format.
WireFormat ==
  Encoded =>
    LET cs == Steps IN
    enc.w = Each([i \in 1..(FirstFailure(cs) - 1) |-> WireLine(cs[i])])
\* A record definition, a pointer, a tag with a value and a tag without one
\* were written
WireFormatWitness ==
  /\ Encoded
  /\ LET cs == SubSeq(Steps, 1, FirstFailure(Steps) - 1) IN
     /\ \A op \in {"tagWithID", "tagWithPointer"} : \E i \in DOMAIN cs : cs[i].op = op
     /\ \E i \in DOMAIN cs : cs[i].op = "tag" /\ cs[i].arg = <<>>
     /\ \E i \in DOMAIN cs : cs[i].op = "tag" /\ cs[i].arg # <<>>

\* ------------------------------------------------------------------ tokenizer
\* The tokenizer has returned false on an input of SpecScan whose stream ends
\* with io.EOF
Scanned ==
  vocab = "scan" /\ phase = "done" /\ scn.rerr = "io.EOF"
\* Every line of the input is a line of the format
WellWritten ==
  \A i \in DOMAIN lines : lines[i].level >= 0
\* The input is its lines, each with a terminator, and nothing after them
WhollyTerminated ==
  scn.r \in Terminated(lines, "endings")
\* The bytes the last call of Next read: those after the last line it yielded
Consumed ==
  SubSeq(scn.r, scn.pos - scn.offset + 1, scn.pos)
\* The input ended in the middle of a line: something other than whitespace
\* follows the last line the tokenizer yielded
MidLine ==
  \E i \in DOMAIN Consumed : ~isSpace(Consumed[i])

\* C18: when the input ends in the middle of a line, a last line without a
\* terminator included, Next returns false and Err is io.ErrUnexpectedEOF
\* (Decode fails with the scan error); when only whitespace or nothing is
\* left after the last line, Next returns false and Err is nil.
EndOfInput ==
  (Scanned /\ WellWritten) =>
    /\ scn.ret = "false"
    /\ scn.pos = Len(scn.r)
    /\ IF MidLine
         THEN /\ scn.err.Err = "io.ErrUnexpectedEOF"
              /\ ret2 = [g |-> "nil", err |-> "ScanErr"]
         ELSE /\ scn.err = NoErr
              /\ ret2 = [g |-> "g", err |-> "nil"]
\* Every line of the input was yielded, and the input ends with a line that
\* has no terminator
EndOfInputWitness ==
  /\ Scanned /\ WellWritten
  /\ lines # <<>> /\ lines2 = lines
  /\ MidLine
  /\ scn.err.Err = "io.ErrUnexpectedEOF"

\* C19: the tokenizer yields the same lines (level, tag, xref, value) whether
\* the lines of the input end with LF, CR LF or a bare CR, also when the three
\* are mixed in one input: the lines as they stand in the file, and no error.
LineEndingTolerance ==
  (Scanned /\ WellWritten /\ WhollyTerminated) =>
    /\ lines2 = lines
    /\ scn.err = NoErr
\* An input of three lines that ends the first with a bare CR, a NOTE line
\* with a value with CR LF and the third with LF
LineEndingToleranceWitness ==
  /\ Scanned
  /\ Len(lines) = 3 /\ WellWritten
  /\ lines[2].tag = T.NOTE
  /\ scn.r = Written(lines[1]) \o <<"\r">> \o Written(lines[2]) \o <<"\r", "\n">>
               \o Written(lines[3]) \o <<"\n">>
  /\ lines2 = lines

\* The line begins with a digit followed by a space
BeginsLine(l) ==
  LET w == Written(l) IN Len(w) >= 2 /\ isNumeric(w[1]) /\ w[2] = " "
\* The lines of a file once every line that does not begin with a digit and a
\* space is appended, after a newline, to the value of the NOTE line it follows
RECURSIVE Folded(_, _)
Folded(acc, ls) ==
  IF ls = <<>> THEN acc
  ELSE LET l == Head(ls) IN
       IF /\ acc # <<>>
          /\ acc[Len(acc)].tag = T.NOTE
          /\ acc[Len(acc)].value # <<>>
          /\ ~BeginsLine(l)
         THEN Folded([acc EXCEPT ![Len(acc)].value = @ \o <<"\n">> \o Written(l)],
                     Tail(ls))
         ELSE Folded(Append(acc, l), Tail(ls))

\* C20: a line that follows the line of a NOTE value and does not begin with a
\* digit followed by a space is appended, after a newline, to the NOTE value
\* and there is no scan error; a line that begins with a digit and a space
\* ends the NOTE value at the terminator before it.
MalformedNote ==
  LET folded == Folded(<<>>, lines) IN
  (Scanned /\ WhollyTerminated /\ \A i \in DOMAIN folded : folded[i].level >= 0) =>
    /\ lines2 = folded
    /\ scn.err = NoErr

\* C21: whitespace before the level digits of a line is skipped: lines that are
\* indented or have blank lines between them yield the lines as they stand in
\* the file, whatever the tag of the line before.
LeadingWhitespace ==
  (Scanned /\ WellWritten /\ scn.r \in Terminated(lines, "indents")) =>
    /\ lines2 = lines
    /\ scn.err = NoErr

\* C22: a line "<level> @X@ TAG" yields the xref X, without the delimiters,
\* and the tag TAG; a line "<level> TAG @X@" yields an empty xref and the
\* value @X@ as it is written.
XrefTokenization ==
  (Scanned /\ WellWritten /\ WhollyTerminated) =>
    \A i \in DOMAIN lines :
      /\ i \in DOMAIN lines2
      /\ lines2[i].tag = lines[i].tag
      /\ lines[i].xref # <<>> => lines2[i].xref = lines[i].xref
      /\ (lines[i].value # <<>> /\ lines[i].value[1] = "@") =>
           lines2[i].xref = <<>> /\ lines2[i].value = lines[i].value
\* An input with a line that defines an xref and a line whose value is a
\* pointer has been read to its end
XrefTokenizationWitness ==
  /\ Scanned /\ WellWritten /\ WhollyTerminated
  /\ \E i, j \in DOMAIN lines2 :
       /\ lines2[i].xref = <<"X">> /\ lines2[i].tag = T.INDI
       /\ lines2[j].xref = <<>> /\ lines2[j].value = <<"@", "X", "@">>
  /\ Len(lines2) = Len(lines)

\* C23: when the stream fails with an error other than io.EOF, Next returns
\* false and Err is that read error, wrapped, not io.ErrUnexpectedEOF, and
\* Decode returns it.
ReadErrorSurfaced ==
  (vocab = "scan" /\ phase = "done" /\ scn.rerr # "io.EOF" /\ WellWritten) =>
    /\ scn.ret = "false"
    /\ scn.err.Err = "read: " \o scn.rerr
    /\ ret2 = [g |-> "nil", err |-> "ScanErr"]

\* C27: within a call of Next the state stays or moves along an edge of the
\* state machine, or goes to stateError from any state; Next returns true only
\* in stateEnd and with a tag that is not empty.
ScannerStateMachine ==
  [][scn' # scn =>
       LET from == IF scn.ret = "continue" THEN scn.state ELSE "stateBegin"
           edges == {<<"stateBegin", "stateLevel">>,
                     <<"stateLevel", "stateSeekTagOrXref">>,
                     <<"stateSeekTagOrXref", "stateTag">>,
                     <<"stateSeekTagOrXref", "stateXref">>,
                     <<"stateXref", "stateSeekTag">>,
                     <<"stateSeekTag", "stateTag">>,
                     <<"stateTag", "stateSeekValue">>,
                     <<"stateTag", "stateEnd">>,
                     <<"stateSeekValue", "stateValue">>,
                     <<"stateSeekValue", "stateEnd">>,
                     <<"stateValue", "stateEnd">>}
       IN /\ \/ scn'.state = from
             \/ <<from, scn'.state>> \in edges
             \/ scn'.state = "stateError"
          /\ scn'.ret = "true" => scn'.state = "stateEnd" /\ scn'.tag # <<>>]_vars
\* Next has returned true for a second line, one with an xref and a tag
ScannerStateMachineWitness ==
  /\ vocab = "scan"
  /\ phase = "rescan"
  /\ scn.ret = "true" /\ scn.state = "stateEnd"
  /\ scn.xref # <<>>
  /\ Len(lines2) = 2

\* C28: once Next has returned false with a scan error, every later call of
\* Next on the Scanner returns false: no line is yielded after the error.
ErrorSink ==
  phase = "again" => scn.ret # "true"

\* ------------------------------------------------------------------ lookups
\* C24: a lookup with an empty xref returns a new record, distinct from every
\* record returned before, and leaves the reference table as it was: so it is
\* for the lookups made so far and for a lookup of any kind made now.
EmptyXrefLookup ==
  /\ \A i, j \in DOMAIN d.looked :
       (i < j /\ d.looked[j].xref = <<>>) =>
         /\ d.looked[j].ref # d.looked[i].ref
         /\ \A x \in DOMAIN d.refs : d.refs[x] # d.looked[j].ref
  /\ \A kind \in Pointable :
       LET r == Lookup(d, kind, <<>>) IN
       /\ r.d.refs = d.refs
       /\ r.ref \notin DOMAIN d.heap
       /\ r.d.heap[r.ref] = NewRecord(kind)
       /\ \A i \in DOMAIN d.heap : r.d.heap[i] = d.heap[i]
       /\ \A i \in DOMAIN d.looked : d.looked[i].ref # r.ref
\* Two lookups with an empty xref have been made after a lookup that
\* registered an xref
EmptyXrefLookupWitness ==
  /\ d.refs # <<>>
  /\ \E i, j, k \in DOMAIN d.looked :
       /\ i < j /\ j < k
       /\ d.looked[i].xref # <<>>
       /\ d.looked[j].xref = <<>>
       /\ d.looked[k].xref = <<>>
       /\ d.looked[j].kind = d.looked[k].kind

\* ------------------------------------------------------------------ log sink
\* The decoder after the lines from the k-th on of ls, each handed to the
\* parser on top of the stack as Decoder.scan does
RECURSIVE Replay(_, _, _)
Replay(dd, ls, k) ==
  IF k > Len(ls) THEN dd
  ELSE Replay(Dispatch([dd EXCEPT !.line = k, !.calls = <<>>], ls[k]), ls, k + 1)
\* A decoder but for its sink and what was written to it
Quiet(dd) ==
  [dd EXCEPT !.tagLogger = FALSE, !.log = <<>>]

\* C25: the sink for unhandled tags never affects the result: a decoder with a
\* sink installed builds, from the lines of a file, the graph that a decoder
\* without a sink builds from them, and panics where it panics; Decode returns
\* the error of the tokenizer in both.
SinkNeverAffects ==
  (vocab \in Vocabularies /\ d.tagLogger) =>
    Quiet(d) = Quiet(Replay(NewDecoder, lines, 1))
\* Decode has returned a graph after lines were written to the sink
SinkNeverAffectsWitness ==
  /\ vocab \in Vocabularies
  /\ Returned
  /\ d.tagLogger
  /\ Len(d.log) >= 2

\* ------------------------------------------------------------------ handler stack
\* C29: after every line the decoder has processed, the stack holds at least
\* one handler and the root handler is at its bottom, the minLevel values of
\* the handlers above the root increase strictly from bottom to top, and each
\* of them is at most the level of the line just processed.
HandlerStack ==
  (vocab \in Vocabularies /\ lines # <<>> /\ ~d.panic) =>
    /\ Len(d.parsers) >= 1
    /\ d.parsers[1].p = "makeRootParser"
    /\ \A i \in 2..Len(d.parsers) :
         /\ d.parsers[i].p # "makeRootParser"
         /\ d.parsers[i].minLevel <= lines[Len(lines)].level
         /\ \A j \in 2..Len(d.parsers) :
              i < j => d.parsers[i].minLevel < d.parsers[j].minLevel
\* A line has returned the stack to a handler below the top, and two handlers
\* are above the root
HandlerStackWitness ==
  /\ vocab \in Vocabularies /\ ~d.panic
  /\ Len(lines) >= 3
  /\ lines[Len(lines)].level < lines[Len(lines) - 1].level
  /\ Len(d.parsers) >= 3

\* ------------------------------------------------------------------ links
\* The records that HUSB, WIFE and CHIL lines (kind IndividualRecord) or FAMC
\* and FAMS lines (kind FamilyRecord) made a pointer to
Linked(kind) ==
  IF kind = "IndividualRecord"
    THEN UNION {{d.heap[f].Husband, d.heap[f].Wife}
                  \cup {d.heap[f].Child[k] : k \in DOMAIN d.heap[f].Child} :
                f \in {i \in DOMAIN d.heap : d.heap[i].kind = "FamilyRecord"}} \ {0}
    ELSE {d.heap[i].Family :
            i \in {j \in DOMAIN d.heap : d.heap[j].kind = "FamilyLinkRecord"}} \ {0}
\* The records that level-0 lines defined
Defined(kind) ==
  IF kind = "IndividualRecord"
    THEN {d.g.Individual[k] : k \in DOMAIN d.g.Individual}
    ELSE {d.g.Family[k] : k \in DOMAIN d.g.Family}

\* C30: in a file that uses each xref for one kind of record, a pointer to an
\* individual or a family (HUSB, WIFE, CHIL, FAMC, FAMS) and the level-0
\* definition with its xref are the same record, whether the pointer comes
\* before or after the definition, and what the definition sets (SEX of the
\* individual, NCHI of the family) is seen through every pointer.
LinkOrderIndependence ==
  (vocab = "link" /\ ~d.panic) =>
    /\ \A kind \in {"IndividualRecord", "FamilyRecord"} :
         \A p \in Linked(kind) : \A q \in Defined(kind) :
           d.heap[p].Xref = d.heap[q].Xref => p = q
    /\ \A k \in 1..(Len(lines) - 1) :
         /\ (lines[k].tag = T.INDI /\ lines[k + 1].tag = T.SEX) =>
              \A p \in Linked("IndividualRecord") : d.heap[p].Sex = lines[k + 1].value
         /\ (lines[k].tag = T.FAM /\ lines[k + 1].tag = T.NCHI) =>
              \A p \in Linked("FamilyRecord") :
                d.heap[p].NumberOfChildren = lines[k + 1].value
\* A family points to a husband who is defined after it, with his sex, and he
\* points back to the family
LinkOrderIndependenceWitness ==
  /\ vocab = "link" /\ Returned
  /\ Len(lines) = 5
  /\ lines[1].tag = T.FAM /\ lines[2].tag = T.HUSB
  /\ lines[3].tag = T.INDI /\ lines[4].tag = T.SEX /\ lines[5].tag = T.FAMS
  /\ Linked("IndividualRecord") = Defined("IndividualRecord")
  /\ Linked("FamilyRecord") = Defined("FamilyRecord")

\* ------------------------------------------------------------------ personal names
\* A string without the whitespace around it
Trimmed(s) ==
  LET inner == {i \in DOMAIN s : ~isSpace(s[i])}
  IN SubSeq(s, CHOOSE i \in inner \cup {Len(s) + 1} : \A j \in inner : i <= j,
               CHOOSE i \in inner \cup {0} : \A j \in inner : j <= i)
\* SplitPersonalName has returned
NameSplit ==
  vocab = "split" /\ phase = "split"

\* C26: when a slash of the name opens a part that has no space directly after
\* that slash or before the slash that closes it, the first such part, with
\* the parts that follow it directly and have no space at either end, is the
\* Surname (the parts joined by "/"), the trimmed text before it is Given, the
\* trimmed text after it is Suffix and Full is those of the three that are not
\* empty, joined by single spaces; when there is no such part, Surname and
\* Suffix are empty and Full and Given are the name without the whitespace
\* around it and without the slashes and spaces at its end.
PersonalName ==
  NameSplit =>
    LET n == Trimmed(lines[1].value)
        slashes == {i \in DOMAIN n : n[i] = "/"}
        \* Where the part that slash s opens is closed: at the next slash, or
        \* at the end of the name
        close(s) == IF \E t \in slashes : t > s
                      THEN CHOOSE t \in slashes : t > s /\ \A u \in slashes : u > s => t <= u
                      ELSE Len(n) + 1
        \* The part that slash s opens is not empty and has no space at its ends
        plain(s) == close(s) > s + 1 /\ n[s + 1] # " " /\ n[close(s) - 1] # " "
        opens == {s \in slashes : plain(s)}
        filled(x) == x # <<>>
    IN IF opens # {}
         THEN LET open == CHOOSE s \in opens : \A t \in opens : s <= t
                  last == CHOOSE t \in slashes :
                            /\ t >= open
                            /\ \A u \in slashes : (open <= u /\ u <= t) => plain(u)
                            /\ close(t) > Len(n) \/ ~plain(close(t))
                  shown == SelectSeq(<<Trimmed(SubSeq(n, 1, open - 1)),
                                       SubSeq(n, open + 1, close(last) - 1),
                                       Trimmed(SubSeq(n, close(last) + 1, Len(n)))>>,
                                     filled)
              IN /\ ret.Given = Trimmed(SubSeq(n, 1, open - 1))
                 /\ ret.Surname = SubSeq(n, open + 1, close(last) - 1)
                 /\ ret.Suffix = Trimmed(SubSeq(n, close(last) + 1, Len(n)))
                 /\ ret.Full = shown[1] \o Each([k \in 1..(Len(shown) - 1) |->
                                                  <<" ">> \o shown[k + 1]])
         ELSE LET kept == {i \in DOMAIN n : n[i] \notin {"/", " "}}
              IN /\ ret.Surname = <<>>
                 /\ ret.Suffix = <<>>
                 /\ ret.Full = ret.Given
                 /\ ret.Given = SubSeq(n, 1, CHOOSE i \in kept \cup {0} :
                                               \A j \in kept : j <= i)
\* A name was split into a given name, a surname of two parts and a suffix
PersonalNameWitness ==
  /\ NameSplit
  /\ ret.Given # <<>> /\ ret.Suffix # <<>>
  /\ \E i \in DOMAIN ret.Surname : ret.Surname[i] = "/"


\* ------------------------------------------------------------------ repeated definitions
\* The top-level lists of the records that are shared through their xref
TopLevelLists ==
  {"Individual", "Family", "Source", "Repository", "Media"}
\* C31: when level-0 lines of one kind define the same xref, they fill one
\* shared record and the graph holds that record once in its top-level list:
\* no list has two entries for one record.
RepeatedDefinitions ==
  \A f \in TopLevelLists :
    \A i, j \in DOMAIN d.g[f] : d.g[f][i] = d.g[f][j] => i = j


\* ------------------------------------------------------------------ user-defined capture
\* The handlers of the stack that are bound to a user-defined node whose
\* level is below that of line l: the nodes that are open for l
OpenFor(l) ==
  {k \in DOMAIN d.parsers :
     /\ d.parsers[k].p = "makeUserDefinedTagParser"
     /\ d.heap[d.parsers[k].obj].Level < l.level}
\* C32: a line with a level greater than that of an open user-defined node
\* becomes a new user-defined node with the line's tag, value, xref and level,
\* whatever its tag: it is the last child of the deepest open node, which is
\* the open node itself or a descendant of it, child by child along the stack;
\* nothing else in the graph, the reference table or the log changes.
UserDefinedCapture ==
  [][(lines' # lines /\ OpenFor(lines'[Len(lines')]) # {}) =>
       LET l == lines'[Len(lines')]
           open == OpenFor(l)
           k == CHOOSE j \in open : \A i \in open : i <= j
           u == d.parsers[k].obj
           n == Len(d.heap) + 1
       IN /\ Len(d'.heap) = n
          /\ d'.heap[n] = [NewRecord("UserDefinedTag")
                             EXCEPT !.Tag = l.tag, !.Value = l.value,
                                    !.Xref = l.xref, !.Level = l.level]
          /\ d'.heap[u].UserDefined = Append(d.heap[u].UserDefined, n)
          /\ \A i \in DOMAIN d.heap :
               d'.heap[i] = IF i = u THEN [d.heap[i] EXCEPT !.UserDefined = Append(@, n)]
                            ELSE d.heap[i]
          /\ \A j \in open : j < k =>
               /\ j + 1 \in open
               /\ \E c \in DOMAIN d.heap[d.parsers[j].obj].UserDefined :
                    d.heap[d.parsers[j].obj].UserDefined[c] = d.parsers[j + 1].obj
          /\ d'.g = d.g /\ d'.refs = d.refs
          /\ d'.looked = d.looked /\ d'.log = d.log]_vars
\* A record line, 2 @X@ INDI, is a user-defined node in a user-defined node
\* that is itself nested in one
UserDefinedCaptureWitness ==
  \E i, j, k \in UserDefinedNodes :
    /\ d.heap[k].Tag = T.INDI /\ d.heap[k].Xref = <<"X">> /\ d.heap[k].Level = 2
    /\ d.heap[j].Level = 1 /\ d.heap[i].Level = 0
    /\ \E c \in DOMAIN d.heap[j].UserDefined : d.heap[j].UserDefined[c] = k
    /\ \E c \in DOMAIN d.heap[i].UserDefined : d.heap[i].UserDefined[c] = j


\* ------------------------------------------------------------------ events
\* The line that encloses line n of the file: the last line before it with a
\* lower level, 0 when there is none
Parent(ls, n) ==
  LET above == {k \in 1..(n - 1) : ls[k].level < ls[n].level}
  IN IF above = {} THEN 0 ELSE CHOOSE k \in above : \A j \in above : j <= k
\* The lines of the events of individual X, and the event record of such a line
IsEvent(ls, k) ==
  /\ ls[k].level = 1
  /\ ls[k].tag \in {T.ADOP, T.BIRT, T.CHR}
  /\ ls[Parent(ls, k)].tag = T.INDI
EventRef(dd, ls, k) ==
  dd.heap[dd.refs[<<"X">>]].Event[Cardinality({j \in 1..k : IsEvent(ls, j)})]
EventAt(k) ==
  d.heap[EventRef(d, lines, k)]
\* The statement of C34 for an ADOP line directly below the line of the event:
\* as the last line read, it has set AdoptedByParent of an ADOP event to its
\* value and left that of any other event empty.
AdoptionSubTag ==
  vocab = "adop" =>
    \A k \in DOMAIN lines :
      (IsEvent(lines, k) /\ lines[Len(lines)].tag = T.ADOP /\ Parent(lines, Len(lines)) = k) =>
        EventAt(k).AdoptedByParent =
          IF lines[k].tag = T.ADOP THEN lines[Len(lines)].value ELSE <<>>
\* C34: an ADOP line below the FAMC line of an ADOP event sets the event's
\* AdoptedByParent to its value, the last such line standing; an ADOP line
\* anywhere else in an ADOP event, or anywhere in an event with another tag,
\* does not set it.
AdoptedByParent ==
  vocab = "adop" =>
    \A k \in DOMAIN lines :
      IsEvent(lines, k) =>
        LET by == {n \in DOMAIN lines :
                     /\ lines[n].tag = T.ADOP /\ Parent(lines, n) # 0
                     /\ lines[Parent(lines, n)].tag = T.FAMC /\ Parent(lines, Parent(lines, n)) = k}
        IN EventAt(k).AdoptedByParent =
             IF lines[k].tag = T.ADOP /\ by # {}
               THEN lines[CHOOSE n \in by : \A j \in by : j <= n].value
               ELSE <<>>
\* 3 ADOP b has been read below 2 FAMC in an ADOP event, after an ADOP line
\* directly below the line of the event
AdoptedByParentWitness ==
  /\ vocab = "adop"
  /\ Len(lines) = 5
  /\ IsEvent(lines, 2) /\ lines[2].tag = T.ADOP
  /\ lines[3].tag = T.ADOP /\ Parent(lines, 3) = 2
  /\ lines[4].tag = T.FAMC /\ Parent(lines, 4) = 2
  /\ lines[5].tag = T.ADOP /\ Parent(lines, 5) = 4
  /\ EventAt(2).AdoptedByParent = <<"b">>


\* The family-link substructures in a heap
FamilyLinks(heap) ==
  {i \in DOMAIN heap : heap[i].kind = "FamilyLinkRecord"}
\* C35: a FAMC line under a BIRT or CHR event sets the event's ChildInFamily
\* to the record the reference table holds for the xref, the one a level-0 FAM
\* line of that xref is bound to; no family-link substructure is created and
\* the handler of the event stays on top of the stack.  A PEDI or NOTE line
\* below that FAMC line creates no family link and changes none.
FamilyOfBirth ==
  [][(vocab = "birth" /\ lines' # lines /\ Parent(lines', Len(lines')) # 0) =>
       LET n == Len(lines')
           l == lines'[n]
           p == Parent(lines', n)
           e == EventRef(d', lines', p)
       IN /\ (l.tag = T.FAMC /\ IsEvent(lines', p)) =>
               /\ <<"F">> \in DOMAIN d'.refs
               /\ d'.heap[e].ChildInFamily = d'.refs[<<"F">>]
               /\ d'.heap[d'.refs[<<"F">>]].kind = "FamilyRecord"
               /\ \A i \in DOMAIN d'.g.Family :
                    d'.heap[d'.g.Family[i]].Xref = <<"F">> =>
                      d'.g.Family[i] = d'.heap[e].ChildInFamily
               /\ FamilyLinks(d'.heap) = FamilyLinks(d.heap)
               /\ d'.parsers[Len(d'.parsers)].p = "makeEventParser"
               /\ d'.parsers[Len(d'.parsers)].obj = e
               /\ Len(d'.parsers) = 3
          /\ (l.tag \in {T.PEDI, T.NOTE} /\ lines[p].tag = T.FAMC
                /\ IsEvent(lines, Parent(lines, p))) =>
               /\ FamilyLinks(d'.heap) = FamilyLinks(d.heap)
               /\ \A i \in FamilyLinks(d.heap) : d'.heap[i] = d.heap[i]]_vars
\* 0 @F@ FAM, then 2 FAMC @F@ under a BIRT event and 3 PEDI p below it: the
\* event has the family of the level-0 line
FamilyOfBirthWitness ==
  /\ vocab = "birth"
  /\ Len(lines) = 5
  /\ lines[1].tag = T.FAM
  /\ lines[3].tag = T.BIRT /\ IsEvent(lines, 3)
  /\ lines[4].tag = T.FAMC /\ Parent(lines, 4) = 3
  /\ lines[5].tag = T.PEDI /\ Parent(lines, 5) = 4
  /\ EventAt(3).ChildInFamily = d.g.Family[1]
  /\ FamilyLinks(d.heap) = {}


\* ------------------------------------------------------------------ publication facts
\* The publication facts of source S in a decoder
Facts(dd) ==
  dd.heap[dd.refs[<<"S">>]].PublicationFacts
\* C36: a DATE or PLAC line under a PUBL line appends its value to the
\* publication facts, after ", " when they are not empty; a CONT line
\* appends a newline and its value and a CONC line its value; the line
\* raises no error and is not logged.
PublicationFacts ==
  [][(vocab = "publ" /\ lines' # lines /\ lines'[Len(lines')].level = 2) =>
       LET l == lines'[Len(lines')]
       IN /\ lines[Parent(lines', Len(lines'))].tag = T.PUBL
          /\ Facts(d') =
               CASE l.tag \in {T.DATE, T.PLAC} ->
                      (IF Facts(d) = <<>> THEN <<>> ELSE Facts(d) \o <<",", " ">>)
                        \o l.value
                 [] l.tag = T.CONT -> Facts(d) \o <<"\n">> \o l.value
                 [] l.tag = T.CONC -> Facts(d) \o l.value
          /\ ~d'.panic /\ phase' = "scan"
          /\ d'.log = d.log]_vars
\* 1 PUBL p, 2 DATE d, 2 PLAC q has given "p, d, q"
PublicationFactsWitness ==
  /\ vocab = "publ"
  /\ Len(lines) = 4
  /\ lines[3].tag = T.DATE /\ lines[4].tag = T.PLAC
  /\ Facts(d) = <<"p", ",", " ", "d", ",", " ", "q">>


\* ------------------------------------------------------------------ alternate names
\* C37: the names of individual X are, in input order, the values of its NAME
\* lines and of its ALIA lines whose value is not empty and not a pointer
\* @...@: such an ALIA line adds a name at the end of the list, any other
\* ALIA line adds none.
AliaAsName ==
  (vocab = "alia" /\ lines # <<>>) =>
    LET IsName(l) ==
          \/ l.tag = T.NAME
          \/ /\ l.tag = T.ALIA
             /\ l.value # <<>>
             /\ ~(l.value[1] = "@" /\ l.value[Len(l.value)] = "@")
        named == SelectSeq(lines, IsName)
        names == d.heap[d.refs[<<"X">>]].Name
    IN [i \in DOMAIN names |-> d.heap[names[i]].Name] =
         [i \in DOMAIN named |-> named[i].value]


\* ------------------------------------------------------------------ addresses
\* The contexts that bear an address: the vocabulary of each and the tag of
\* the line that opens it
AddressContexts ==
  [corp |-> T.CORP, repo |-> T.REPO, resi |-> T.RESI]
\* The AddressRecord of the context that is open in a decoder: that of the
\* source system of the header, of repository R, of the last attribute of
\* individual X
AddressIn(dd) ==
  CASE vocab = "corp" -> dd.heap[dd.g.Header].SourceSystem.Address
    [] vocab = "repo" -> dd.heap[dd.refs[<<"R">>]].Address
    [] vocab = "resi" ->
         LET attrs == dd.heap[dd.refs[<<"X">>]].Attribute
         IN dd.heap[attrs[Len(attrs)]].Address
\* C38: in each context an ADDR line directly below the line of the context
\* adds a new AddressDetail whose Full is its value, and a PHON, EMAIL, FAX,
\* WWW or URL line appends its value to the Phone, Email, Fax or WWW list, URL
\* to WWW; a line directly below the ADDR line changes the last detail only:
\* CONT appends a newline and its value to Full, CONC its value, ADR1, ADR2,
\* ADR3, CITY, STAE, POST and CTRY set the field of the tag.
AddressParsing ==
  [][(vocab \in DOMAIN AddressContexts /\ lines' # lines
        /\ Parent(lines', Len(lines')) # 0) =>
       LET l == lines'[Len(lines')]
           p == Parent(lines', Len(lines'))
           a == AddressIn(d)
           b == AddressIn(d')
           v == l.value
       IN /\ lines[p].tag = AddressContexts[vocab] =>
               CASE l.tag = T.ADDR ->
                      /\ b = [a EXCEPT !.Address = Append(@, Len(d.heap) + 1)]
                      /\ Len(d'.heap) = Len(d.heap) + 1
                      /\ d'.heap[Len(d'.heap)] =
                           [NewRecord("AddressDetail") EXCEPT !.Full = v]
                 [] l.tag = T.PHON -> b = [a EXCEPT !.Phone = Append(@, v)]
                 [] l.tag = T.EMAIL -> b = [a EXCEPT !.Email = Append(@, v)]
                 [] l.tag = T.FAX -> b = [a EXCEPT !.Fax = Append(@, v)]
                 [] l.tag \in {T.WWW, T.URL} -> b = [a EXCEPT !.WWW = Append(@, v)]
          /\ (lines[p].tag = T.ADDR
                /\ lines[Parent(lines, p)].tag = AddressContexts[vocab]) =>
               LET det == a.Address[Len(a.Address)]
               IN /\ b = a
                  /\ d'.heap[det] =
                       CASE l.tag = T.CONT -> [d.heap[det] EXCEPT !.Full = @ \o <<"\n">> \o v]
                         [] l.tag = T.CONC -> [d.heap[det] EXCEPT !.Full = @ \o v]
                         [] l.tag = T.ADR1 -> [d.heap[det] EXCEPT !.Line1 = v]
                         [] l.tag = T.ADR2 -> [d.heap[det] EXCEPT !.Line2 = v]
                         [] l.tag = T.ADR3 -> [d.heap[det] EXCEPT !.Line3 = v]
                         [] l.tag = T.CITY -> [d.heap[det] EXCEPT !.City = v]
                         [] l.tag = T.STAE -> [d.heap[det] EXCEPT !.State = v]
                         [] l.tag = T.POST -> [d.heap[det] EXCEPT !.PostalCode = v]
                         [] l.tag = T.CTRY -> [d.heap[det] EXCEPT !.Country = v]]_vars
\* 0 @R@ REPO, 1 ADDR a, 2 CONT b, 2 CONC e, 1 URL u: Full is "a\nbe" and the
\* WWW list holds u
AddressParsingWitness ==
  /\ vocab = "repo"
  /\ Len(lines) = 5
  /\ lines[5].tag = T.URL
  /\ AddressIn(d).WWW = <<<<"u">>>>
  /\ Len(AddressIn(d).Address) = 1
  /\ d.heap[AddressIn(d).Address[1]].Full = <<"a", "\n", "b", "e">>


\* ------------------------------------------------------------------ user-defined round trip
\* The user-defined nodes in a list, each with its children
RECURSIVE UserTree(_, _)
UserTree(hp, uds) ==
  [i \in DOMAIN uds |->
     [Tag |-> hp[uds[i]].Tag, Value |-> hp[uds[i]].Value, Xref |-> hp[uds[i]].Xref,
      Level |-> hp[uds[i]].Level, UserDefined |-> UserTree(hp, hp[uds[i]].UserDefined)]]
\* The user-defined nodes of a graph under each parent that Encode writes
\* them for: the top level, the header, its source system and the individuals
UserTrees(dd) ==
  [top |-> UserTree(dd.heap, dd.g.UserDefined),
   header |-> IF dd.g.Header = 0 THEN <<>>
              ELSE UserTree(dd.heap, dd.heap[dd.g.Header].UserDefined),
   system |-> IF dd.g.Header = 0 THEN <<>>
              ELSE UserTree(dd.heap, dd.heap[dd.g.Header].SourceSystem.UserDefined),
   individual |-> [i \in DOMAIN dd.g.Individual |->
                     UserTree(dd.heap, dd.heap[dd.g.Individual[i]].UserDefined)]]
\* C33: when the graph of a Decode has been encoded and the bytes written
\* decoded, every user-defined node of the graph is in the second graph with
\* its tag, value, xref and level, with its children, under the same parent.
UserDefinedRoundTrip ==
  (vocab = "udef" /\ phase = "done" /\ ret2 = [g |-> "g", err |-> "nil"]) =>
    UserTrees(d2) = UserTrees(d)


\* ------------------------------------------------------------------ trailer
\* C39: when Encode has been called with a graph whose Trailer is not nil,
\* the last line written is the trailer line 0 TRLR.
TrailerEmission ==
  (vocab = "udef" /\ phase \in {"rescan", "done"} /\ d.g.Trailer # 0) =>
    LET w == enc.w
        n == Len(w)
    IN /\ n >= 7
       /\ SubSeq(w, n - 6, n) = <<"0", " ", "T", "R", "L", "R", "\n">>
       /\ n > 7 => w[n - 7] = "\n"


\* ------------------------------------------------------------------ source positions
\* The offset in the input of the first character of the line Next has just
\* read: the whitespace before it is passed over
LineStart ==
  LET begin == scn.pos - scn.offset
      text == {i \in (begin + 1)..scn.pos : ~isSpace(scn.r[i])}
  IN IF text = {} THEN scn.pos
     ELSE (CHOOSE i \in text : \A j \in text : i <= j) - 1
\* The number of the physical line that holds offset n of the input: one more
\* than the line terminators (LF, CR LF or a bare CR) before it
PhysicalLine(n) ==
  1 + Cardinality({i \in 1..n :
                     \/ scn.r[i] = "\n"
                     \/ scn.r[i] = "\r" /\ (i = Len(scn.r) \/ scn.r[i + 1] # "\n")})
\* C40: for every line Next returns, LineNumber is the number of the physical
\* line on which the line starts and Offset is its offset in the input: that
\* of its first character or, at the latest, that of the end of the line, where
\* the Scanner stands; a ScanErr carries the position of the failing line
\* likewise.
SourcePositions ==
  (vocab = "scan" /\ phase \in {"rescan", "done"}) =>
    /\ scn.ret = "true" =>
         /\ scn.line = PhysicalLine(LineStart)
         /\ scn.offset \in LineStart..scn.pos
    /\ (scn.ret = "false" /\ scn.err # NoErr /\ scn.rerr = "io.EOF") =>
         /\ scn.err.LineNumber = PhysicalLine(LineStart)
         /\ scn.err.Offset \in LineStart..scn.pos

============================================================================
